---- MODULE Spec2Model ----
(***************************************************************************)
(* Model of the agentic RAG pipeline of mbspro (apps/api/src/rag):         *)
(*   - the tri-state Verifier (verify.service.ts),                         *)
(*   - the Rule Parser (rule-parser.service, concatenated in               *)
(*     agent-graph.service.ts),                                            *)
(*   - the Retriever's local result filter (query.service.ts),             *)
(*   - the Agent Orchestrator graph and its fallback pipeline              *)
(*     (agent-graph.service.ts).                                           *)
(*                                                                         *)
(* Conventions.  A nullable number is a Nat or NULLN.  A nullable enum or  *)
(* string is a string or "null".  A nullable boolean is "true", "false"    *)
(* or "null".  A string that the code inspects with startsWith/includes is *)
(* a sequence of characters (group) or a token of a finite vocabulary with *)
(* an explicit substring table (keywords, display).                        *)
(***************************************************************************)
EXTENDS Integers, Sequences, FiniteSets, TLC

VARIABLES
    \* one verification, verifyOneTri(vnote, vrule)
    vpc, vnote, vrule, vout,
    \* one extraction, extractNoteFacts(xnote) with the LLM answering xllm
    xpc, xnote, xllm, xout,
    \* one retrieval, queryRag(qquery, top, qopts) in the environment qenv
    qpc, qquery, qopts, qenv, qout,
    \* one run of agenticQueryRag
    pc, includeVerify, top, topN, facts, iterations, done, proposal, accepted,
    bannedCodes, seenCodes, refine,
    \* the locals of the retry loop of propose / refine_propose
    attempt, merged,
    \* the locals of the fallback pipeline
    fbItems, fbFailed,
    \* the value returned to the caller
    result,
    \* history of the run
    nPropose, nRefine, nVerify, nCalls, proposals, failedEver,
    \* the Retriever calls and the verifyBatch calls of the fallback pipeline
    fbCalls, fbVerifies,
    \* two runs of agenticQueryRag on one service instance: the state of each
    \* graph, the responses each run's calls receive, the shared handles
    cruns, cscript, cinfra

vvars == <<vpc, vnote, vrule, vout>>
xvars == <<xpc, xnote, xllm, xout>>
qvars == <<qpc, qquery, qopts, qenv, qout>>
cvars == <<cruns, cscript, cinfra>>
avars == <<pc, includeVerify, top, topN, facts, iterations, done, proposal, accepted,
           bannedCodes, seenCodes, refine, attempt, merged, fbItems, fbFailed, result,
           nPropose, nRefine, nVerify, nCalls, proposals, failedEver, fbCalls, fbVerifies>>
vars == <<vvars, xvars, qvars, cvars, avars>>

(***************************************************************************)
(* Bounds of the model.                                                    *)
(***************************************************************************)
MaxDur == 3
MaxAge == 2
MaxResp == 2
MaxTop == 2

(***************************************************************************)
(* Values.                                                                 *)
(***************************************************************************)
NULLN == -1
Infinity == 1000

Modalities == {"in_person", "video", "phone"}
Settings == {"consulting_rooms", "hospital", "residential_care", "home", "other"}

Min(a, b) == IF a <= b THEN a ELSE b
Max(a, b) == IF a >= b THEN a ELSE b

\* x ?? d for a nullable number
OrElseN(x, d) == IF x = NULLN THEN d ELSE x

(***************************************************************************)
(* Strings the code searches.  A keyword token is a string of the          *)
(* vocabulary; TokenSubs gives, for each token, the needles of the code's  *)
(* includes() calls that occur in the token.                               *)
(***************************************************************************)
Vocab == {"team", "home visit", "telehealth", "hospital", "surgery", "usual gp",
          "nurse", "doctor", "specialist referral", "ct brain", "ultrasound",
          "iv contrast"}

TokenSubs == [t \in Vocab |->
    CASE t = "team" -> {"team"}
      [] t = "home visit" -> {"home visit"}
      [] t = "telehealth" -> {"telehealth"}
      [] t = "hospital" -> {"hospital"}
      [] t = "surgery" -> {"surgery"}
      [] t = "usual gp" -> {"usual gp", "us"}
      [] t = "nurse" -> {}
      [] t = "doctor" -> {}
      [] t = "specialist referral" -> {"specialist referral"}
      [] t = "ct brain" -> {"ct", "brain"}
      [] t = "ultrasound" -> {"ultrasound", "us"}
      [] t = "iv contrast" -> {"iv contrast"}]

\* noteText.includes(needle), noteText = keywords.join(' ').toLowerCase()
TextIncludes(keywords, needle) == \E t \in keywords : needle \in TokenSubs[t]

TextIncludesAny(keywords, needles) == \E n \in needles : TextIncludes(keywords, n)

\* number of matches of /\b(specialist|doctor|practitioner|nurse|therapist|consultant)\b/g
RoleNouns == {"nurse", "doctor", "specialist referral"}
ParticipantCount(keywords) == Cardinality(keywords \cap RoleNouns)

\* display strings (evidence_spans joined) and what includes() finds in them
Displays == {"", "ct with contrast", "ct", "ultrasound"}
DisplaySubs == [d \in Displays |->
    CASE d = "" -> {}
      [] d = "ct with contrast" -> {"ct", "with contrast"}
      [] d = "ct" -> {"ct"}
      [] d = "ultrasound" -> {"ultrasound"}]

\* group.startsWith(prefix), both sequences of characters
StartsWith(s, p) == Len(s) >= Len(p) /\ SubSeq(s, 1, Len(p)) = p

\* group.toLowerCase().includes('anaes'): the model's groups spell it out whole
AnaesGroup == <<"a", "n", "a", "e", "s">>
IncludesAnaes(group) == group = AnaesGroup

(***************************************************************************)
(* verify.service.ts                                                       *)
(***************************************************************************)
getCategoriesFromGroup(group, subgroup) ==
    LET gp == IF StartsWith(group, <<"A", "1">>) \/ StartsWith(group, <<"A", "7">>)
              THEN {"GP"} ELSE {}
        sp == IF \/ StartsWith(group, <<"A", "3">>) \/ StartsWith(group, <<"A", "4">>)
                 \/ StartsWith(group, <<"A", "2", "8">>) \/ StartsWith(group, <<"A", "2", "9">>)
              THEN {"Specialist"} ELSE {}
        th == IF StartsWith(group, <<"A", "4", "0">>) THEN {"Telehealth"} ELSE {}
        ah == IF \/ StartsWith(group, <<"A", "1", "1">>) \/ StartsWith(group, <<"A", "2", "2">>)
                 \/ StartsWith(group, <<"A", "2", "3">>)
              THEN {"AfterHours"} ELSE {}
        em == IF \/ StartsWith(group, <<"A", "2", "1">>)
                 \/ (StartsWith(group, <<"T", "1">>) /\ subgroup = "14")
              THEN {"Emergency"} ELSE {}
        im == IF StartsWith(group, <<"I">>) THEN {"Imaging"} ELSE {}
        su == IF StartsWith(group, <<"T", "8">>) \/ IncludesAnaes(group)
              THEN {"Surgery"} ELSE {}
        pa == IF StartsWith(group, <<"P">>) THEN {"Pathology"} ELSE {}
        cats == gp \cup sp \cup th \cup ah \cup em \cup im \cup su \cup pa
    IN  IF cats = {} THEN {"Other"} ELSE cats

SurgeryKeywords == {"operation", "surgery", "anaesthesia", "incision", "drainage",
                    "procedure", "reduction", "repair", "open", "closed reduction",
                    "orif", "fixation"}

\* variant: a Surgery item whose note has no surgery keyword is failed
refineByKeywords_autoFail(note, display, group, subgroup) ==
    IF /\ group # <<>>
       /\ "Surgery" \in getCategoriesFromGroup(group, subgroup)
       /\ ~TextIncludesAny(note.keywords, SurgeryKeywords)
    THEN [result |-> "FAIL", details |-> "surgery/anaesthesia not mentioned"]
    ELSE [result |-> "PASS", details |-> ""]

refineByKeywords(note, display, group, subgroup) ==
    LET dsub == DisplaySubs[display]
        kw == note.keywords
    IN  IF /\ group # <<>>
           /\ "Surgery" \in getCategoriesFromGroup(group, subgroup)
           /\ ~TextIncludesAny(kw, SurgeryKeywords)
        THEN [result |-> "SOFT", details |-> "surgery/anaesthesia not mentioned"]
        ELSE IF /\ "ct" \in dsub
                /\ ("with contrast" \in dsub \/ "contrast enhanced" \in dsub)
                /\ ~TextIncludesAny(kw, {"with contrast", "intravenous contrast",
                                         "iv contrast", "contrast enhanced"})
        THEN [result |-> "SOFT", details |-> "contrast not mentioned"]
        ELSE IF /\ "ct" \in dsub
                /\ "with contrast" \notin dsub
                /\ TextIncludes(kw, "ct")
                /\ TextIncludesAny(kw, {"brain", "facial", "face", "head", "chest",
                                        "abdomen", "spine", "neck", "pelvis",
                                        "extremity", "limb"})
        THEN [result |-> "PASS", details |-> ""]
        ELSE IF /\ ("ultrasound" \in dsub \/ "sonography" \in dsub \/ "us " \in dsub)
                /\ ~TextIncludesAny(kw, {"ultrasound", "sonography", "us"})
        THEN [result |-> "SOFT", details |-> "ultrasound not mentioned"]
        ELSE [result |-> "PASS", details |-> ""]

intervalsOverlap(fMin, fMax, rMin, rMax) == fMin < rMax /\ fMax > rMin

\* variant: PASS when the note interval covers the rule interval
checkTimeWindow_covers(nfacts, rule) ==
    LET win == rule.time_window
        fMin == OrElseN(nfacts.duration_min, 0)
        fMax == OrElseN(nfacts.duration_max, Infinity)
        rMin == OrElseN(win.min, 0)
        rMax == OrElseN(win.max, Infinity)
        fullContain == fMin <= rMin /\ fMax >= rMax
    IN  IF ~win.present THEN [pass |-> TRUE, details |-> ""]
        ELSE IF intervalsOverlap(fMin, fMax, rMin, rMax)
        THEN (IF fullContain THEN [pass |-> TRUE, details |-> ""]
              ELSE [pass |-> TRUE, details |-> "soft_pass_overlap"])
        ELSE [pass |-> FALSE, details |-> "duration not in rule"]

checkTimeWindow(nfacts, rule) ==
    LET win == rule.time_window
        fMin == OrElseN(nfacts.duration_min, 0)
        fMax == OrElseN(nfacts.duration_max, Infinity)
        rMin == OrElseN(win.min, 0)
        rMax == OrElseN(win.max, Infinity)
        inside == fMin >= rMin /\ fMax <= rMax
    IN  IF ~win.present THEN [pass |-> TRUE, details |-> ""]
        ELSE IF inside THEN [pass |-> TRUE, details |-> ""]
        ELSE IF intervalsOverlap(fMin, fMax, rMin, rMax)
        THEN [pass |-> TRUE, details |-> "soft_pass_overlap"]
        ELSE [pass |-> FALSE, details |-> "duration not in rule"]

checkAgeRange(nfacts, rule) ==
    LET ageRange == rule.age_range
        patientAge == nfacts.age
        min == OrElseN(ageRange.min, 0)
        max == OrElseN(ageRange.max, Infinity)
        minCheck == IF ageRange.left_closed THEN patientAge >= min ELSE patientAge > min
        maxCheck == IF ageRange.right_closed THEN patientAge <= max ELSE patientAge < max
    IN  IF ~ageRange.present THEN [pass |-> TRUE, details |-> ""]
        ELSE IF patientAge = NULLN
        THEN [pass |-> TRUE, details |-> "soft_info_missing: unknown age"]
        ELSE IF minCheck /\ maxCheck THEN [pass |-> TRUE, details |-> ""]
        ELSE [pass |-> FALSE, details |-> "require age"]

checkConditions(nfacts, rule) ==
    IF rule.conditions = 0 THEN [pass |-> TRUE, details |-> ""]
    ELSE [pass |-> TRUE, details |-> "soft_info_missing: need to confirm"]

\* the flag checks in the order the code inserts them into its result object
checkFlags(nfacts, rule) ==
    LET kw == nfacts.keywords
        f == rule.flags
        cc == IF ~f.case_conference THEN <<>>
              ELSE IF ~TextIncludesAny(kw, {"conference", "team", "multidisciplinary"})
              THEN <<[name |-> "case_conference", pass |-> TRUE,
                      details |-> "soft_info_missing: conference/team not mentioned"]>>
              ELSE IF f.case_conference_min # 0
                      /\ ParticipantCount(kw) < f.case_conference_min
              THEN <<[name |-> "case_conference", pass |-> FALSE, details |-> "require team"]>>
              ELSE <<[name |-> "case_conference", pass |-> TRUE, details |-> ""]>>
        ug == IF ~f.usual_gp_required THEN <<>>
              ELSE IF ~TextIncludesAny(kw, {"usual gp", "usual medical practitioner"})
              THEN <<[name |-> "usual_gp", pass |-> TRUE,
                      details |-> "soft_info_missing: not confirmed"]>>
              ELSE <<[name |-> "usual_gp", pass |-> TRUE, details |-> ""]>>
        ho == IF ~f.home_only THEN <<>>
              ELSE IF ~TextIncludesAny(kw, {"home visit", "home setting", "attendance at home"})
              THEN <<[name |-> "home_only", pass |-> TRUE,
                      details |-> "soft_info_missing: home setting not mentioned"]>>
              ELSE <<[name |-> "home_only", pass |-> TRUE, details |-> ""]>>
        rg == IF ~f.referral_gp THEN <<>>
              ELSE IF nfacts.referral_present = "null"
              THEN <<[name |-> "referral_gp", pass |-> TRUE,
                      details |-> "soft_info_missing: referral not specified, GP referral may be required"]>>
              ELSE IF nfacts.referral_present = "false"
              THEN <<[name |-> "referral_gp", pass |-> FALSE, details |-> "GP referral required"]>>
              ELSE <<[name |-> "referral_gp", pass |-> TRUE, details |-> "referral present"]>>
        rs == IF ~f.referral_specialist THEN <<>>
              ELSE IF ~TextIncludesAny(kw, {"specialist referral", "referred to specialist"})
              THEN <<[name |-> "referral_specialist", pass |-> TRUE,
                      details |-> "soft_info_missing: not mentioned"]>>
              ELSE <<[name |-> "referral_specialist", pass |-> TRUE, details |-> ""]>>
    IN  cc \o ug \o ho \o rg \o rs

\* details.includes('soft_info_missing')
IsSoftInfoMissing(details) ==
    details \in {"soft_info_missing: unknown age",
                 "soft_info_missing: need to confirm",
                 "soft_info_missing: conference/team not mentioned",
                 "soft_info_missing: not confirmed",
                 "soft_info_missing: home setting not mentioned",
                 "soft_info_missing: referral not specified, GP referral may be required",
                 "soft_info_missing: not mentioned"}

triTime(note, rule) ==
    LET r == checkTimeWindow(note, rule)
    IN  IF ~r.pass /\ r.details = "duration not in rule"
        THEN [result |-> "FAIL", details |-> r.details]
        ELSE IF r.pass /\ r.details = "soft_pass_overlap"
        THEN [result |-> "SOFT", details |-> r.details]
        ELSE [result |-> "PASS", details |-> ""]

triAge(note, rule) ==
    LET r == checkAgeRange(note, rule)
    IN  IF ~r.pass /\ r.details = "require age"
        THEN [result |-> "FAIL", details |-> r.details]
        ELSE IF r.pass /\ IsSoftInfoMissing(r.details)
        THEN [result |-> "SOFT", details |-> r.details]
        ELSE [result |-> "PASS", details |-> ""]

\* variant: every modality that is not allowed is a FAIL
triModality_strict(noteModality, ruleModalityAllowed) ==
    LET actualModality == IF noteModality = "null" THEN "in_person" ELSE noteModality
    IN  IF ruleModalityAllowed = {} THEN [result |-> "PASS", details |-> ""]
        ELSE IF actualModality \in ruleModalityAllowed
        THEN [result |-> "PASS", details |-> actualModality]
        ELSE [result |-> "FAIL", details |-> "modality not allowed"]

triModality(noteModality, ruleModalityAllowed) ==
    LET actualModality == IF noteModality = "null" THEN "in_person" ELSE noteModality
        isTelehealthOnly == "video" \in ruleModalityAllowed /\ "in_person" \notin ruleModalityAllowed
        isPhoneOnly == "phone" \in ruleModalityAllowed /\ "in_person" \notin ruleModalityAllowed
        isInPersonOnly == /\ "in_person" \in ruleModalityAllowed
                          /\ "video" \notin ruleModalityAllowed
                          /\ "phone" \notin ruleModalityAllowed
    IN  IF ruleModalityAllowed = {} THEN [result |-> "PASS", details |-> ""]
        ELSE IF actualModality \in ruleModalityAllowed
        THEN [result |-> "PASS", details |-> actualModality]
        ELSE IF isTelehealthOnly /\ actualModality = "in_person"
        THEN [result |-> "SOFT", details |-> "telehealth not mentioned"]
        ELSE IF isPhoneOnly /\ actualModality = "in_person"
        THEN [result |-> "SOFT", details |-> "phone consultation not mentioned"]
        ELSE IF isInPersonOnly /\ actualModality \in {"video", "phone"}
        THEN [result |-> "FAIL", details |-> "in-person consultation required, but telehealth/phone used"]
        ELSE [result |-> "SOFT", details |-> "modality not specified"]

triSetting(noteSetting, ruleSettingAllowed, keywords) ==
    IF ruleSettingAllowed = {} THEN [result |-> "PASS", details |-> ""]
    ELSE IF noteSetting = "null" \/ noteSetting = "other"
    THEN IF TextIncludesAny(keywords, {"telehealth", "phone", "home visit", "video",
                                       "virtual", "remote"})
         THEN [result |-> "FAIL", details |-> "telehealth/remote setting conflicts with hospital/consulting rooms requirement"]
         ELSE [result |-> "SOFT", details |-> "setting not specified"]
    ELSE IF noteSetting \in ruleSettingAllowed
    THEN [result |-> "PASS", details |-> noteSetting]
    ELSE IF /\ TextIncludesAny(keywords, {"hospital", "consulting rooms", "clinic"})
            /\ "hospital" \notin ruleSettingAllowed
            /\ "consulting_rooms" \notin ruleSettingAllowed
    THEN [result |-> "FAIL", details |-> "hospital/consulting rooms setting conflicts with requirement"]
    ELSE [result |-> "SOFT", details |-> "setting not specified"]

\* variant: an unknown visit type is treated as a mismatch
triFirstOrReview_strict(val, req) ==
    IF req = "null" \/ req = "either" THEN [result |-> "PASS", details |-> ""]
    ELSE IF val = req THEN [result |-> "PASS", details |-> ""]
    ELSE [result |-> "FAIL", details |-> "require visit type"]

triFirstOrReview(val, req) ==
    IF req = "null" \/ req = "either" THEN [result |-> "PASS", details |-> ""]
    ELSE IF val = "null" THEN [result |-> "SOFT", details |-> "unknown visit type"]
    ELSE IF val = req THEN [result |-> "PASS", details |-> ""]
    ELSE [result |-> "FAIL", details |-> "require visit type"]

triIsGp(noteIsGp, ruleCategories) ==
    IF "GP" \notin ruleCategories THEN [result |-> "PASS", details |-> ""]
    ELSE IF noteIsGp = "null"
    THEN [result |-> "SOFT", details |-> "GP context not specified, may be required"]
    ELSE IF noteIsGp = "false"
    THEN [result |-> "FAIL", details |-> "Requires GP attendance, but specialist/ED context found"]
    ELSE [result |-> "PASS", details |-> "GP attendance matched"]

triIsSpecialist(noteIsSpecialist, ruleCategories) ==
    IF "Specialist" \notin ruleCategories THEN [result |-> "PASS", details |-> ""]
    ELSE IF noteIsSpecialist = "null"
    THEN [result |-> "SOFT", details |-> "Specialist context not specified, may be required"]
    ELSE IF noteIsSpecialist = "false"
    THEN [result |-> "FAIL", details |-> "Requires specialist, but GP/ED context found"]
    ELSE [result |-> "PASS", details |-> "Specialist attendance matched"]

triIsEmergency(noteIsEmergency, ruleCategories) ==
    IF "Emergency" \notin ruleCategories THEN [result |-> "PASS", details |-> ""]
    ELSE IF noteIsEmergency = "null"
    THEN [result |-> "SOFT", details |-> "Emergency context not specified, may be required"]
    ELSE IF noteIsEmergency = "false"
    THEN [result |-> "FAIL", details |-> "Requires ED attendance, but no ED context found"]
    ELSE [result |-> "PASS", details |-> "ED attendance matched"]

triReferral(noteReferral, ruleReferralRequired) ==
    IF ruleReferralRequired # "true" THEN [result |-> "PASS", details |-> ""]
    ELSE IF noteReferral = "null"
    THEN [result |-> "SOFT", details |-> "referral not specified, GP referral may be required"]
    ELSE IF noteReferral = "false"
    THEN [result |-> "FAIL", details |-> "GP referral required"]
    ELSE [result |-> "PASS", details |-> "referral present"]

\* val.toLowerCase() === req.toLowerCase(): the model's specialties are lower case
triSpecialty(val, req) ==
    IF req = "null" THEN [result |-> "PASS", details |-> ""]
    ELSE IF val = "null"
    THEN [result |-> "SOFT", details |-> "check if the specialist type matches the required specialty"]
    ELSE IF val = req THEN [result |-> "PASS", details |-> ""]
    ELSE [result |-> "FAIL", details |-> "require specialty"]

triConditions(note, rule) ==
    LET r == checkConditions(note, rule)
    IN  IF ~r.pass THEN [result |-> "FAIL", details |-> r.details]
        ELSE IF IsSoftInfoMissing(r.details) THEN [result |-> "SOFT", details |-> r.details]
        ELSE [result |-> "PASS", details |-> ""]

triFlags(note, rule) ==
    LET fc == checkFlags(note, rule)
    IN  [i \in 1..Len(fc) |->
            IF fc[i].pass /\ IsSoftInfoMissing(fc[i].details)
            THEN [name |-> fc[i].name, result |-> "SOFT", details |-> fc[i].details]
            ELSE IF ~fc[i].pass
            THEN [name |-> fc[i].name, result |-> "FAIL", details |-> fc[i].details]
            ELSE [name |-> fc[i].name, result |-> "PASS", details |-> fc[i].details]]

Named(n, r) == [name |-> n, result |-> r.result, details |-> r.details]

\* the tri-state checks of verifyOneTri, in the order they are pushed
triChecksOf(note, rule) ==
    LET categories == IF rule.group # <<>>
                      THEN getCategoriesFromGroup(rule.group, rule.subgroup)
                      ELSE {"Other"}
    IN  << Named("time_window", triTime(note, rule)),
           Named("age", triAge(note, rule)),
           Named("modality", triModality(note.modality, rule.modality_allowed)),
           Named("setting", triSetting(note.setting, rule.setting_allowed, note.keywords)),
           Named("first_or_review", triFirstOrReview(note.first_or_review, rule.first_or_review)),
           Named("referral", triReferral(note.referral_present, rule.referral_required)),
           Named("specialty", triSpecialty(note.specialty, rule.specialty_required)),
           Named("conditions", triConditions(note, rule)),
           Named("is_gp", triIsGp(note.is_gp, categories)),
           Named("is_emergency", triIsEmergency(note.is_emergency, categories)),
           Named("is_specialist", triIsSpecialist(note.is_specialist, categories)) >>
        \o triFlags(note, rule)
        \o << Named("keyword_refine",
                    refineByKeywords(note, rule.display, rule.group, rule.subgroup)) >>

\* variant: only PASS is flattened to pass = TRUE
flattenCheck_passOnly(c) ==
    [name |-> c.name, pass |-> c.result = "PASS", details |-> c.details]

\* the flattened check of a report: pass and details from the tri-state result
flattenCheck(c) ==
    [name |-> c.name,
     pass |-> c.result # "FAIL",
     details |-> IF c.result = "SOFT"
                 THEN (IF c.details = "" THEN "uncertain" ELSE c.details)
                 ELSE c.details]

\* variant: only the checks pushed before the context checks count
hasHardFailOf_early(triChecks) == \E i \in 1..8 : triChecks[i].result = "FAIL"

hasHardFailOf(triChecks) == \E i \in 1..Len(triChecks) : triChecks[i].result = "FAIL"

\* F(x) with x computed once, as a const is in the source
Once(x, F(_)) == CHOOSE v \in {F(y) : y \in {x}} : TRUE

\* the report verifyOneTri builds from its triChecks
triReport(rule, triChecks) ==
    LET categories == IF rule.group # <<>>
                      THEN getCategoriesFromGroup(rule.group, rule.subgroup)
                      ELSE {"Other"}
        hasHardFail == hasHardFailOf(triChecks)
        hasSoft == \E i \in 1..Len(triChecks) : triChecks[i].result = "SOFT"
    IN  [report |-> [item_code |-> rule.code,
                     passes |-> ~hasHardFail,
                     checks |-> [i \in 1..Len(triChecks) |-> flattenCheck(triChecks[i])],
                     rationale |-> IF hasHardFail THEN "failed"
                                   ELSE IF hasSoft THEN "uncertain" ELSE "passed",
                     categories |-> categories],
         tri |-> triChecks,
         hardFail |-> hasHardFail,
         soft |-> hasSoft]

verifyOneTri(note, rule) ==
    Once(triChecksOf(note, rule), LAMBDA triChecks : triReport(rule, triChecks))

resolveTimeConflicts(items) == [final |-> items, notes |-> <<>>]

(***************************************************************************)
(* Inputs of the Verifier: NoteFacts (rag.types NoteFacts) and ItemRule    *)
(* (rag.types ItemRule) values around a base value, one family per group   *)
(* of checks.                                                              *)
(***************************************************************************)
NullableDur == {NULLN} \cup 0..MaxDur
NullableAge == {NULLN} \cup 0..MaxAge
NullableBool == {"true", "false", "null"}

NoWindow == [present |-> FALSE, min |-> NULLN, max |-> NULLN]
NoAgeRange == [present |-> FALSE, min |-> NULLN, max |-> NULLN,
               left_closed |-> TRUE, right_closed |-> FALSE]
NoFlags == [case_conference |-> FALSE, case_conference_min |-> 0,
            usual_gp_required |-> FALSE, home_only |-> FALSE,
            referral_gp |-> FALSE, referral_specialist |-> FALSE]

BaseNote == [duration_min |-> NULLN, duration_max |-> NULLN, modality |-> "in_person",
             setting |-> "other", first_or_review |-> "null", referral_present |-> "null",
             specialty |-> "null", age |-> NULLN, keywords |-> {},
             is_gp |-> "null", is_emergency |-> "null", is_specialist |-> "null"]

BaseRule == [code |-> "A", group |-> <<>>, subgroup |-> "", time_window |-> NoWindow,
             age_range |-> NoAgeRange, setting_allowed |-> {}, modality_allowed |-> {},
             specialty_required |-> "null", referral_required |-> "null",
             first_or_review |-> "null", conditions |-> 0, flags |-> NoFlags,
             display |-> ""]

Windows == {NoWindow} \cup
           [present : {TRUE}, min : NullableDur, max : NullableDur]

AgeRanges == {NoAgeRange} \cup
             [present : {TRUE}, min : {NULLN, 1}, max : {NULLN, MaxAge},
              left_closed : BOOLEAN, right_closed : BOOLEAN]

Groups == {<<>>, <<"A", "1">>, <<"A", "1", "1">>, <<"A", "3">>, <<"A", "4", "0">>,
           <<"A", "2", "1">>, <<"A", "2", "8">>, <<"T", "1">>, <<"T", "8">>,
           <<"I", "1">>, <<"P", "1">>, <<"D", "1">>, AnaesGroup}

KeywordSets == {{}} \cup {{t} : t \in Vocab}
               \cup {{"team", "nurse"}, {"team", "nurse", "doctor"}, {"hospital", "telehealth"}}

FlagSets == {f \in [case_conference : BOOLEAN, case_conference_min : {0, 2},
                    usual_gp_required : BOOLEAN, home_only : BOOLEAN,
                    referral_gp : BOOLEAN, referral_specialist : BOOLEAN] :
                f.case_conference_min = 0 \/ f.case_conference}

SettingRules == {{}, {"hospital"}, {"consulting_rooms", "hospital"}, {"residential_care"}}

\* duration and modality
TimeInput ==
    \E fmin \in NullableDur, fmax \in NullableDur, m \in Modalities \cup {"null"},
       w \in Windows, allowed \in SUBSET Modalities :
        /\ vnote = [BaseNote EXCEPT !.duration_min = fmin, !.duration_max = fmax,
                                    !.modality = m]
        /\ vrule = [BaseRule EXCEPT !.time_window = w, !.modality_allowed = allowed]

\* age
AgeInput ==
    \E age \in NullableAge, ar \in AgeRanges :
        /\ vnote = [BaseNote EXCEPT !.age = age]
        /\ vrule = [BaseRule EXCEPT !.age_range = ar]

\* visit type, referral, specialty, sequence conditions
PatientInput ==
    \E fr \in {"first", "review", "null"}, ref \in NullableBool, sp \in {"gp", "null"},
       rfr \in {"first", "either", "null"}, rref \in {"true", "null"},
       rsp \in {"gp", "sexual_health_specialist", "null"}, cond \in {0, 1} :
        /\ vnote = [BaseNote EXCEPT !.first_or_review = fr, !.referral_present = ref,
                                    !.specialty = sp]
        /\ vrule = [BaseRule EXCEPT !.first_or_review = rfr, !.referral_required = rref,
                                    !.specialty_required = rsp, !.conditions = cond]

\* provider context against the category of the rule's group
ContextInput ==
    \E gp \in NullableBool, em \in NullableBool, sp \in NullableBool,
       kw \in {{}, {"surgery"}, {"ct brain"}},
       g \in Groups, sg \in {"", "14"}, d \in Displays :
        /\ vnote = [BaseNote EXCEPT !.is_gp = gp, !.is_emergency = em,
                                    !.is_specialist = sp, !.keywords = kw]
        /\ vrule = [BaseRule EXCEPT !.group = g, !.subgroup = sg, !.display = d]

\* setting against the keywords
SettingInput ==
    \E st \in Settings \cup {"null"}, kw \in KeywordSets, allowed \in SettingRules :
        /\ vnote = [BaseNote EXCEPT !.setting = st, !.keywords = kw]
        /\ vrule = [BaseRule EXCEPT !.setting_allowed = allowed]

\* flags against the keywords and the referral
FlagInput ==
    \E kw \in KeywordSets, ref \in NullableBool, f \in FlagSets :
        /\ vnote = [BaseNote EXCEPT !.keywords = kw, !.referral_present = ref]
        /\ vrule = [BaseRule EXCEPT !.flags = f]

(***************************************************************************)
(* rule-parser.service: a description is the set of phrases of the         *)
(* parser's vocabulary that occur in it, with the numbers its regular      *)
(* expressions capture (NULLN or <<>> when the expression does not match). *)
(***************************************************************************)
DescVocab == {"video", "telehealth", "telephone", "hospital", "consulting rooms",
              "residential care", "general practitioner", "referral", "gp referral",
              "specialist referral", "review", "first attendance", "case conference",
              "usual gp", "home visit"}

PhraseSubs == [p \in DescVocab |->
    CASE p = "telephone" -> {"telephone", "phone"}
      [] p = "gp referral" -> {"gp referral", "referral"}
      [] p = "specialist referral" -> {"specialist referral", "referral"}
      [] OTHER -> {p}]

DescIncludes(desc, needle) == \E p \in desc.phrases : needle \in PhraseSubs[p]

EmptyDesc == [phrases |-> {}, ivA |-> <<>>, ivB |-> NULLN, ivC |-> NULLN,
              ageA |-> NULLN, ageB |-> <<>>, ageC |-> NULLN, ageD |-> <<>>,
              ageE |-> NULLN, relations |-> 0, careProviders |-> NULLN]

\* the metadata of a catalog document: its duration bounds and its Group
NoMeta == [duration_min_minutes |-> NULLN, duration_max_minutes |-> NULLN, group |-> <<>>]

parseIntervalFromDesc(desc) ==
    IF desc.ivA # <<>> THEN [present |-> TRUE, min |-> desc.ivA[1], max |-> desc.ivA[2]]
    ELSE IF desc.ivB # NULLN THEN [present |-> TRUE, min |-> desc.ivB, max |-> NULLN]
    ELSE IF desc.ivC # NULLN THEN [present |-> TRUE, min |-> 0, max |-> desc.ivC]
    ELSE NoWindow

parseAgeRange(desc) ==
    LET ar(lo, hi) == [present |-> TRUE, min |-> lo, max |-> hi,
                       left_closed |-> TRUE, right_closed |-> FALSE]
    IN  IF desc.ageA # NULLN THEN ar(desc.ageA, NULLN)
        ELSE IF desc.ageB # <<>> THEN ar(desc.ageB[1], desc.ageB[2])
        ELSE IF desc.ageC # NULLN THEN ar(0, desc.ageC)
        ELSE IF desc.ageD # <<>> THEN ar(desc.ageD[1], desc.ageD[2])
        ELSE IF desc.ageE # NULLN THEN ar(desc.ageE, NULLN)
        ELSE NoAgeRange

\* null is the empty set: the Verifier treats both alike
parseSetting(desc) ==
    (IF DescIncludes(desc, "consulting rooms") THEN {"consulting_rooms"} ELSE {})
    \cup (IF DescIncludes(desc, "hospital") \/ DescIncludes(desc, "inpatient")
          THEN {"hospital"} ELSE {})
    \cup (IF DescIncludes(desc, "residential aged care") \/ DescIncludes(desc, "residential care")
          THEN {"residential_care"} ELSE {})

\* variant: no modality is required when the description names none
parseModality_unconstrained(desc) ==
    (IF DescIncludes(desc, "video") \/ DescIncludes(desc, "telehealth")
     THEN {"video"} ELSE {})
    \cup (IF DescIncludes(desc, "telephone") \/ DescIncludes(desc, "phone")
          THEN {"phone"} ELSE {})

parseModality(desc) ==
    LET v == (IF DescIncludes(desc, "video") \/ DescIncludes(desc, "telehealth")
              THEN {"video"} ELSE {})
             \cup (IF DescIncludes(desc, "telephone") \/ DescIncludes(desc, "phone")
                   THEN {"phone"} ELSE {})
    IN  IF v = {} THEN {"in_person"} ELSE v

parseSpecialty(desc) ==
    IF DescIncludes(desc, "general practitioner") THEN "gp"
    ELSE IF DescIncludes(desc, "sexual health medicine specialist")
    THEN "sexual_health_specialist"
    ELSE "null"

parseReferral(desc) == IF DescIncludes(desc, "referral") THEN "true" ELSE "null"

parseFirstOrReview(desc) ==
    IF \/ DescIncludes(desc, "first attendance") \/ DescIncludes(desc, "initial consultation")
       \/ DescIncludes(desc, "initial assessment")
    THEN "first"
    ELSE IF DescIncludes(desc, "review") THEN "review"
    ELSE "null"

parseConditions(desc) == desc.relations

parseFlags(desc) ==
    LET cc == \/ DescIncludes(desc, "case conference")
              \/ DescIncludes(desc, "multidisciplinary")
    IN  [case_conference |-> cc,
         case_conference_min |-> IF cc /\ desc.careProviders # NULLN
                                 THEN desc.careProviders + 1 ELSE 0,
         usual_gp_required |-> \/ DescIncludes(desc, "usual gp")
                               \/ DescIncludes(desc, "usual medical practitioner"),
         home_only |-> \/ DescIncludes(desc, "home visit")
                       \/ DescIncludes(desc, "attendance at home"),
         referral_gp |-> \/ DescIncludes(desc, "gp referral")
                         \/ DescIncludes(desc, "referring practitioner"),
         referral_specialist |-> DescIncludes(desc, "specialist referral")]

\* variant: the rule carries the Group of the catalog document
buildItemRuleFromDesc_catalogGroup(code, desc, meta) ==
    LET interval ==
            IF meta.duration_min_minutes # NULLN \/ meta.duration_max_minutes # NULLN
            THEN [present |-> TRUE, min |-> meta.duration_min_minutes,
                  max |-> meta.duration_max_minutes]
            ELSE parseIntervalFromDesc(desc)
    IN  [code |-> code, group |-> meta.group, subgroup |-> "",
         time_window |-> interval,
         age_range |-> parseAgeRange(desc),
         setting_allowed |-> parseSetting(desc),
         modality_allowed |-> parseModality(desc),
         specialty_required |-> parseSpecialty(desc),
         referral_required |-> parseReferral(desc),
         first_or_review |-> parseFirstOrReview(desc),
         conditions |-> parseConditions(desc),
         flags |-> parseFlags(desc),
         display |-> ""]

\* the rule has no group and no subgroup, and its evidence_spans are empty
\* (display, their join, is "")
buildItemRuleFromDesc(code, desc, meta) ==
    LET interval ==
            IF meta.duration_min_minutes # NULLN \/ meta.duration_max_minutes # NULLN
            THEN [present |-> TRUE, min |-> meta.duration_min_minutes,
                  max |-> meta.duration_max_minutes]
            ELSE parseIntervalFromDesc(desc)
    IN  [code |-> code, group |-> <<>>, subgroup |-> "",
         time_window |-> interval,
         age_range |-> parseAgeRange(desc),
         setting_allowed |-> parseSetting(desc),
         modality_allowed |-> parseModality(desc),
         specialty_required |-> parseSpecialty(desc),
         referral_required |-> parseReferral(desc),
         first_or_review |-> parseFirstOrReview(desc),
         conditions |-> parseConditions(desc),
         flags |-> parseFlags(desc),
         display |-> ""]

\* the rule of a description in which no pattern matches, with empty metadata,
\* against notes that vary in every fact a check of such a rule reads
UnmatchedRuleInput ==
    \E m \in Modalities \cup {"null"}, kw \in KeywordSets, st \in Settings \cup {"null"},
       fmin \in NullableDur, age \in NullableAge, ref \in NullableBool :
        /\ vnote = [BaseNote EXCEPT !.modality = m, !.keywords = kw, !.setting = st,
                                    !.duration_min = fmin, !.duration_max = fmin,
                                    !.age = age, !.referral_present = ref]
        /\ vrule = buildItemRuleFromDesc("A", EmptyDesc, NoMeta)

VerifyInput ==
    \/ TimeInput \/ AgeInput \/ PatientInput \/ ContextInput \/ SettingInput \/ FlagInput
    \/ UnmatchedRuleInput

NoOut == [report |-> [item_code |-> "", passes |-> FALSE, checks |-> <<>>,
                      rationale |-> "", categories |-> {}],
          tri |-> <<>>, hardFail |-> FALSE, soft |-> FALSE]

(***************************************************************************)
(* facts.service.ts.  A note is what the extractor's regular expressions   *)
(* find in it: the duration phrase (one of the phrasings below, with its   *)
(* numbers) and the words that set the other facts.                        *)
(***************************************************************************)
\* numbers a duration phrase can name
DurNumbers == 0..MaxDur \cup {19, 22}

\* the phrasings of a duration: "exactly A minutes", "A minutes",
\* "A-B minutes", "at least A minutes and less than B minutes",
\* "at least A min", "more than A min", "less than A min", "A+ min", and
\* "more than usual, A-B minutes"
DurPhrases ==
    {[form |-> "none", A |-> 0, B |-> 0]}
    \cup [form : {"exactly", "plain", "at_least", "more_than", "less_than", "plus"},
          A : DurNumbers, B : {0}]
    \cup [form : {"range", "at_least_less_than", "modifier_range"},
          A : DurNumbers, B : DurNumbers]

\* what each regular expression of extractNoteFactsHeuristic captures in a phrase
DurMatches(ph) ==
    [exactTime |-> IF ph.form = "exactly" THEN ph.A ELSE NULLN,
     standaloneTime |->
        IF ph.form \in {"exactly", "plain", "at_least_less_than", "at_least",
                        "more_than", "less_than"} THEN ph.A
        ELSE IF ph.form \in {"range", "modifier_range"} THEN ph.B
        ELSE NULLN,
     modifier |-> ph.form \in {"at_least_less_than", "at_least", "more_than",
                               "less_than", "modifier_range"},
     rangeTime |-> IF ph.form \in {"range", "modifier_range"} THEN <<ph.A, ph.B>> ELSE <<>>,
     a |-> IF ph.form = "at_least_less_than" THEN <<ph.A, ph.B>> ELSE <<>>,
     b |-> IF ph.form \in {"at_least_less_than", "at_least"} THEN ph.A ELSE NULLN,
     c |-> IF ph.form = "more_than" THEN ph.A ELSE NULLN,
     d |-> IF ph.form = "less_than" THEN ph.A
           ELSE IF ph.form = "at_least_less_than" THEN ph.B ELSE NULLN,
     e |-> IF ph.form \in {"range", "modifier_range"} THEN ph.B
           ELSE IF ph.form = "none" THEN NULLN ELSE ph.A]

Dur(lo, hi, li, hi_incl) ==
    [duration_min |-> lo, duration_max |-> hi,
     duration_min_inclusive |-> li, duration_max_inclusive |-> hi_incl]

\* the if-chain over the matches
heuristicDuration(m) ==
    IF m.exactTime # NULLN THEN Dur(m.exactTime, m.exactTime, "true", "true")
    ELSE IF m.standaloneTime # NULLN /\ ~m.modifier
    THEN Dur(m.standaloneTime, m.standaloneTime, "true", "true")
    ELSE IF m.rangeTime # <<>> THEN Dur(m.rangeTime[1], m.rangeTime[2], "true", "true")
    ELSE IF m.a # <<>> THEN Dur(m.a[1], m.a[2], "true", "false")
    ELSE IF m.b # NULLN THEN Dur(m.b, NULLN, "true", "false")
    ELSE IF m.c # NULLN THEN Dur(m.c, NULLN, "false", "false")
    ELSE IF m.d # NULLN THEN Dur(Max(0, m.d - 1), m.d, "true", "false")
    ELSE IF m.e # NULLN THEN Dur(m.e, NULLN, "true", "false")
    ELSE Dur(NULLN, NULLN, "null", "null")

\* a note: its duration phrase, the modality word ("none", "video", "phone"),
\* the setting word ("none", "hospital", "home visit"), the age it states,
\* the visit word ("none", "first", "review"), the provider word ("none",
\* "specialist", "gp") and whether it has the word "team"
Notes(phrases, modalityWords, settingWords, ages, visitWords, providerWords, teamWords) ==
    [dur : phrases, modalityWord : modalityWords, settingWord : settingWords,
     age : ages, visitWord : visitWords, providerWord : providerWords,
     team : teamWords]

BareNote == [dur |-> [form |-> "none", A |-> 0, B |-> 0], modalityWord |-> "none",
             settingWord |-> "none", age |-> NULLN, visitWord |-> "none",
             providerWord |-> "none", team |-> FALSE]

\* the seed: a field the heuristic leaves unset is null (NULLN, "null")
extractNoteFactsHeuristic(note) ==
    [dur |-> heuristicDuration(DurMatches(note.dur)),
     facts |->
       [duration_min |-> heuristicDuration(DurMatches(note.dur)).duration_min,
        duration_max |-> heuristicDuration(DurMatches(note.dur)).duration_max,
        modality |-> IF note.modalityWord = "none" THEN "in_person" ELSE note.modalityWord,
        setting |-> IF note.settingWord = "hospital" THEN "hospital"
                    ELSE IF note.settingWord = "home visit" THEN "home" ELSE "null",
        first_or_review |-> IF note.visitWord = "none" THEN "null" ELSE note.visitWord,
        referral_present |-> "null",
        specialty |-> "null",
        age |-> note.age,
        keywords |-> (IF note.team THEN {"team"} ELSE {})
                     \cup (IF note.settingWord = "home visit" THEN {"home visit"} ELSE {})
                     \cup (IF note.providerWord = "specialist" THEN {"specialist"} ELSE {}),
        is_gp |-> IF note.providerWord = "specialist" THEN "false"
                  ELSE IF note.providerWord = "gp" THEN "true" ELSE "null",
        is_emergency |-> "null",
        is_specialist |-> IF note.providerWord = "specialist" THEN "true"
                          ELSE IF note.providerWord = "gp" THEN "false" ELSE "null"]]

\* duration_max is undefined exactly when no branch of the if-chain ran, which
\* is when duration_min is null
needLLM(seed) ==
    \/ seed.facts.duration_min = NULLN
    \/ seed.facts.modality = "null"
    \/ seed.facts.setting = "null"
    \/ seed.dur.duration_min_inclusive = "null"
    \/ seed.dur.duration_max_inclusive = "null"
    \/ seed.facts.age = NULLN

\* x ?? y for nullable strings
OrElseS(x, y) == IF x = "null" THEN y ELSE x

\* the facts returned without the LLM: when it is not needed, and in the catch
factsFromSeed(seed) ==
    [seed.facts EXCEPT !.setting = OrElseS(seed.facts.setting, "other")]

\* the answers of the LLM: NoAnswer when the call or the parse throws,
\* otherwise the JSON object (keywords "none" when it is not an array)
\* the fields left out here (after_hours, referral_present, specialty,
\* is_emergency, is_specialist) are answered null
NoAnswer == [ok |-> FALSE, duration_min |-> NULLN, duration_max |-> NULLN,
             duration_min_inclusive |-> "null", duration_max_inclusive |-> "null",
             modality |-> "null", setting |-> "null", first_or_review |-> "null",
             age |-> NULLN, is_gp |-> "null", keywords |-> "none"]

\* variant: a value of the heuristic is kept, the LLM fills the gaps
mergeLLM_seedFirst(json, seed) ==
    [factsFromSeed(seed) EXCEPT
        !.duration_min = OrElseN(seed.facts.duration_min, json.duration_min),
        !.duration_max = OrElseN(seed.facts.duration_max, json.duration_max),
        !.modality = OrElseS(seed.facts.modality, json.modality),
        !.setting = OrElseS(OrElseS(seed.facts.setting, json.setting), "other"),
        !.first_or_review = OrElseS(seed.facts.first_or_review, json.first_or_review),
        !.age = OrElseN(seed.facts.age, json.age),
        !.is_gp = OrElseS(seed.facts.is_gp, json.is_gp)]

\* the merge of the LLM's JSON with the seed
mergeLLM(json, seed) ==
    [factsFromSeed(seed) EXCEPT
        !.duration_min = OrElseN(json.duration_min, seed.facts.duration_min),
        !.duration_max = OrElseN(json.duration_max, seed.facts.duration_max),
        !.modality = OrElseS(json.modality, seed.facts.modality),
        !.setting = OrElseS(OrElseS(json.setting, seed.facts.setting), "other"),
        !.first_or_review = OrElseS(json.first_or_review, seed.facts.first_or_review),
        !.age = OrElseN(json.age, seed.facts.age),
        !.is_gp = OrElseS(json.is_gp, seed.facts.is_gp),
        !.keywords = IF json.keywords = "none" THEN seed.facts.keywords
                     ELSE IF json.keywords = "empty" THEN {} ELSE {json.keywords}]

\* the inclusive flags of the returned facts
flagsFromSeed(seed) ==
    [duration_min_inclusive |->
        OrElseS(seed.dur.duration_min_inclusive,
                IF seed.facts.duration_min # NULLN THEN "true" ELSE "null"),
     duration_max_inclusive |->
        OrElseS(seed.dur.duration_max_inclusive,
                IF seed.facts.duration_max # NULLN THEN "false" ELSE "null")]

flagsLLM(json, seed) ==
    [duration_min_inclusive |->
        OrElseS(OrElseS(json.duration_min_inclusive, seed.dur.duration_min_inclusive),
                IF json.duration_min # NULLN THEN "true" ELSE "null"),
     duration_max_inclusive |->
        OrElseS(OrElseS(json.duration_max_inclusive, seed.dur.duration_max_inclusive),
                IF json.duration_max # NULLN THEN "false" ELSE "null")]

extractNoteFactsFrom(seed, llm) ==
    [seed |-> seed.facts,
     path |-> IF ~needLLM(seed) THEN "heuristic" ELSE IF llm.ok THEN "llm" ELSE "catch",
     facts |-> IF ~needLLM(seed) THEN factsFromSeed(seed)
               ELSE IF llm.ok THEN mergeLLM(llm, seed)
               ELSE factsFromSeed(seed),
     flags |-> IF needLLM(seed) /\ llm.ok THEN flagsLLM(llm, seed)
               ELSE flagsFromSeed(seed)]

extractNoteFacts(note, llm) == extractNoteFactsFrom(extractNoteFactsHeuristic(note), llm)

NoFacts == [seed |-> BaseNote, path |-> "none", facts |-> BaseNote,
            flags |-> [duration_min_inclusive |-> "null", duration_max_inclusive |-> "null"]]

\* answers of the LLM about the duration
DurationAnswers ==
    {NoAnswer} \cup
    {[NoAnswer EXCEPT !.ok = TRUE, !.duration_min = lo, !.duration_max = hi,
                      !.duration_max_inclusive = mi] :
        lo \in {NULLN, 2}, hi \in {NULLN, 1}, mi \in {"null", "true"}}

\* answers of the LLM about the other facts
FieldAnswers ==
    {NoAnswer} \cup
    {[NoAnswer EXCEPT !.ok = TRUE,
                      !.modality = IF visit THEN "video" ELSE "null",
                      !.setting = IF visit THEN "consulting_rooms" ELSE "null",
                      !.first_or_review = IF visit THEN "first" ELSE "null",
                      !.age = IF patient THEN 2 ELSE NULLN,
                      !.is_gp = IF patient THEN "true" ELSE "null",
                      !.keywords = kw] :
        visit \in BOOLEAN, patient \in BOOLEAN, kw \in {"none", "empty", "conference"}}

\* notes that differ in their duration phrase
DurationNoteInput ==
    \E ph \in DurPhrases, sw \in {"none", "hospital"}, ag \in {NULLN, 1}, ans \in DurationAnswers :
        /\ xnote = [BareNote EXCEPT !.dur = ph, !.settingWord = sw, !.age = ag]
        /\ xllm = ans

\* notes that differ in the words of the other facts
FieldNoteInput ==
    \E n \in Notes({[form |-> "none", A |-> 0, B |-> 0], [form |-> "plain", A |-> 1, B |-> 0]},
                   {"none", "video", "phone"}, {"none", "hospital", "home visit"},
                   {NULLN, 1}, {"none", "review"}, {"none", "specialist", "gp"}, BOOLEAN),
       ans \in FieldAnswers :
        /\ xnote = n
        /\ xllm = ans

ExtractInput == DurationNoteInput \/ FieldNoteInput

ExtractorIdle == xpc = "idle" /\ xnote = BareNote /\ xllm = NoAnswer /\ xout = NoFacts

(***************************************************************************)
(* query.service.ts.  A query is its text before the #constraints block,   *)
(* the codes of the block's -code:X tokens and whether the block has a     *)
(* +key:value token that compiles to a metadata filter (mustCodes: the     *)
(* codes of its +code:X tokens).  The environment is what each external    *)
(* call does; candidates is the list of documents after the vector search  *)
(* and the rerank, each with the code of its metadata and its score in     *)
(* halves.                                                                 *)
(***************************************************************************)
NoQuery == [text |-> "", mustNot |-> {}, must |-> FALSE, mustCodes |-> {}]
NoOpts == [excludeCodes |-> {}, enableStage2Reflection |-> FALSE]
CalmEnv == [vectorStore |-> TRUE, searchFiltered |-> "ok", search |-> "ok",
            cohere |-> "ok", reflection |-> "ok", llm |-> "results", llmResults |-> <<>>,
            candidates |-> <<>>]
NoResponse == [kind |-> "none", results |-> <<>>, source |-> <<>>]
RetrieverIdle ==
    qpc = "idle" /\ qquery = NoQuery /\ qopts = NoOpts /\ qenv = CalmEnv /\ qout = NoResponse

\* rag-infra.service.ts: the handles before the first initIfNeeded
NoInfra == [vectorStore |-> FALSE]
ConcurrentIdle == cruns = <<>> /\ cscript = <<>> /\ cinfra = NoInfra

(***************************************************************************)
(* The state of a run before it starts, and of a verification before it    *)
(* is made.                                                                *)
(***************************************************************************)
NoResult == [kind |-> "none", items |-> <<>>, iterations |-> 0, note_facts |-> BaseNote]
NoRefine == [must |-> {}, must_not |-> {}]

AgentIdle ==
    /\ pc = "idle" /\ includeVerify = TRUE /\ top = 1 /\ topN = 1 /\ facts = BaseNote
    /\ iterations = 0 /\ done = FALSE /\ proposal = <<>> /\ accepted = <<>>
    /\ bannedCodes = {} /\ seenCodes = {} /\ refine = NoRefine
    /\ attempt = 0 /\ merged = <<>> /\ fbItems = <<>> /\ fbFailed = {}
    /\ result = NoResult
    /\ nPropose = 0 /\ nRefine = 0 /\ nVerify = 0 /\ nCalls = 0
    /\ proposals = <<>> /\ failedEver = {}
    /\ fbCalls = 0 /\ fbVerifies = 0

VerifierIdle == vpc = "idle" /\ vnote = BaseNote /\ vrule = BaseRule /\ vout = NoOut

(***************************************************************************)
(* SpecV: one call of verifyOneTri on every input of VerifyInputs.         *)
(***************************************************************************)
InitV ==
    /\ vpc = "input"
    /\ VerifyInput
    /\ vout = NoOut
    /\ ExtractorIdle
    /\ RetrieverIdle
    /\ ConcurrentIdle
    /\ AgentIdle

VerifyOne ==
    /\ vpc = "input"
    /\ vout' = verifyOneTri(vnote, vrule)
    /\ vpc' = "done"
    /\ UNCHANGED <<vnote, vrule, avars, xvars, qvars, cvars>>

NextV == VerifyOne

SpecV == InitV /\ [][NextV]_vars

(***************************************************************************)
(* One extraction: extractNoteFacts on a note, with the answer the LLM     *)
(* gives if it is asked.                                                   *)
(***************************************************************************)
InitX ==
    /\ xpc = "ready"
    /\ ExtractInput
    /\ xout = NoFacts
    /\ VerifierIdle
    /\ RetrieverIdle
    /\ ConcurrentIdle
    /\ AgentIdle

ExtractNoteFacts ==
    /\ xpc = "ready"
    /\ xpc' = "done"
    /\ xout' = extractNoteFacts(xnote, xllm)
    /\ UNCHANGED <<xnote, xllm, vvars, qvars, cvars, avars>>

NextX == ExtractNoteFacts

SpecX == InitX /\ [][NextX]_vars

(***************************************************************************)
(* Properties of the Verifier (checked under SpecV).                       *)
(***************************************************************************)
TriResult(name) ==
    LET i == CHOOSE j \in 1..Len(vout.tri) : vout.tri[j].name = name
    IN  vout.tri[i].result

\* C7: the report of verifyOneTri has passes = TRUE exactly when none of its
\* checks has the tri-state result FAIL.
C7_PassesIffNoFail ==
    vpc = "done" =>
        (vout.report.passes <=> \A i \in 1..Len(vout.tri) : vout.tri[i].result # "FAIL")

C7_Witness ==
    /\ vpc = "done"
    /\ ~vout.report.passes
    /\ \E i \in 1..Len(vout.tri) : vout.tri[i].result = "SOFT"
    /\ vout.tri[Len(vout.tri)].result # "FAIL"
    /\ \E i \in 9..Len(vout.tri) : vout.tri[i].result = "FAIL"

\* C8: in every report, the flattened pass flag of a check is TRUE exactly when
\* its tri-state result is not FAIL, and a check whose result is SOFT has
\* pass = TRUE and a non-empty details string.
C8_FlattenedChecks ==
    vpc = "done" =>
        /\ Len(vout.report.checks) = Len(vout.tri)
        /\ \A i \in 1..Len(vout.tri) :
            /\ vout.report.checks[i].name = vout.tri[i].name
            /\ vout.report.checks[i].pass <=> (vout.tri[i].result # "FAIL")
            /\ vout.tri[i].result = "SOFT" =>
                  (vout.report.checks[i].pass /\ vout.report.checks[i].details # "")

C8_Witness ==
    /\ vpc = "done"
    /\ \E i, j \in 1..Len(vout.tri) :
        /\ vout.tri[i].result = "SOFT" /\ vout.report.checks[i].pass
        /\ vout.tri[j].result = "FAIL" /\ ~vout.report.checks[j].pass

\* The minutes of a half-open interval [lo, hi) with null endpoints unbounded,
\* over the minutes 0..MaxDur and one minute beyond every finite endpoint.
Minutes == 0..(MaxDur + 1)
HalfOpen(lo, hi) ==
    {x \in Minutes : (lo = NULLN \/ x >= lo) /\ (hi = NULLN \/ x < hi)}
NoteF == HalfOpen(vnote.duration_min, vnote.duration_max)
RuleR == HalfOpen(vrule.time_window.min, vrule.time_window.max)

TimeWindowBySets ==
    /\ TriResult("time_window") = "PASS" <=> NoteF \subseteq RuleR
    /\ TriResult("time_window") = "SOFT" <=>
          (NoteF \cap RuleR # {} /\ ~(NoteF \subseteq RuleR))
    /\ TriResult("time_window") = "FAIL" <=>
          (NoteF \cap RuleR = {} /\ ~(NoteF \subseteq RuleR))

\* C9 as stated: for all integer endpoints, time_window is PASS iff F is
\* contained in R, SOFT iff F and R intersect without containment, FAIL otherwise.
C9_TimeWindowAllEndpoints ==
    (vpc = "done" /\ vrule.time_window.present) => TimeWindowBySets

\* C9 amended: the same, for intervals F and R that are not empty
\* (fmin < fmax and rmin < rmax after the null endpoints are made unbounded);
\* and for all endpoints, empty intervals included, the check is PASS iff
\* rmin <= fmin and fmax <= rmax, SOFT iff it is not PASS and fmin < rmax and
\* fmax > rmin, FAIL otherwise (a null lower endpoint read as 0, a null upper
\* endpoint as unbounded).
LowEnd(x) == IF x = NULLN THEN 0 ELSE x
HighEnd(x) == IF x = NULLN THEN Infinity ELSE x
EndsInside ==
    /\ LowEnd(vnote.duration_min) >= LowEnd(vrule.time_window.min)
    /\ HighEnd(vnote.duration_max) <= HighEnd(vrule.time_window.max)
EndsOverlap ==
    /\ LowEnd(vnote.duration_min) < HighEnd(vrule.time_window.max)
    /\ HighEnd(vnote.duration_max) > LowEnd(vrule.time_window.min)
TimeWindowByEndpoints ==
    /\ TriResult("time_window") = "PASS" <=> EndsInside
    /\ TriResult("time_window") = "SOFT" <=> (~EndsInside /\ EndsOverlap)
    /\ TriResult("time_window") = "FAIL" <=> (~EndsInside /\ ~EndsOverlap)

C9_TimeWindowNonEmpty ==
    (vpc = "done" /\ vrule.time_window.present) =>
        /\ (NoteF # {} /\ RuleR # {}) => TimeWindowBySets
        /\ TimeWindowByEndpoints

C9_Witness ==
    /\ vpc = "done" /\ vrule.time_window.present
    /\ NoteF # {} /\ RuleR # {}
    /\ vnote.duration_max # NULLN /\ vrule.time_window.min # NULLN
    /\ TriResult("time_window") = "SOFT"

\* C10: with a non-empty modality_allowed and effective modality m (null read as
\* in_person), the modality check is PASS iff m is allowed, FAIL iff the rule
\* allows in_person and neither video nor phone and m is video or phone, and
\* SOFT in every other case.
EffectiveModality == IF vnote.modality = "null" THEN "in_person" ELSE vnote.modality
C10_Modality ==
    (vpc = "done" /\ vrule.modality_allowed # {}) =>
        LET m == EffectiveModality
            allowed == vrule.modality_allowed
            clash == /\ "in_person" \in allowed
                     /\ "video" \notin allowed /\ "phone" \notin allowed
                     /\ m \in {"video", "phone"}
        IN  /\ TriResult("modality") = "PASS" <=> m \in allowed
            /\ TriResult("modality") = "FAIL" <=> clash
            /\ TriResult("modality") = "SOFT" <=> (m \notin allowed /\ ~clash)

C10_Witness ==
    /\ vpc = "done"
    /\ vrule.modality_allowed = {"video"}
    /\ vnote.modality = "null"
    /\ TriResult("modality") = "SOFT"

(***************************************************************************)
(* The Retriever as the orchestrator sees it.  The synthesis LLM answers   *)
(* with any list of results; a result names a code ("" when it has none)   *)
(* and carries the description and metadata of one catalogue sample.       *)
(***************************************************************************)
Codes == {"A", "B", "C"}

VideoDesc == [EmptyDesc EXCEPT !.phrases = {"video"}, !.ivB = 2]
Samples == << [desc |-> EmptyDesc, meta |-> [NoMeta EXCEPT !.group = <<"A", "1">>]],
              [desc |-> VideoDesc, meta |-> [NoMeta EXCEPT !.group = <<"T", "8">>]] >>

\* a result whose code is in the retrieved documents carries the catalog's
\* description of it (A, B); the description of any other result is the text
\* the LLM wrote (C); a result without itemNum has the code ""
SamplesOf(c) == IF c = "A" THEN {1} ELSE IF c = "B" THEN {2} ELSE IF c = "C" THEN {1, 2} ELSE {1}
ResultItems == {r \in [code : Codes \cup {""}, d : 1..Len(Samples)] : r.d \in SamplesOf(r.code)}
Responses == UNION {[1..n -> ResultItems] : n \in 0..MaxResp}

\* the notes' facts the Fact Extractor can return in a run
FactSamples == { [BaseNote EXCEPT !.duration_min = 1, !.duration_max = 1],
                 [BaseNote EXCEPT !.modality = "video"] }

Tops == 0..MaxTop \cup {11}
clampTop(t) == Min(Max(t, 1), 10)

SeqMap(f(_), s) == [i \in 1..Len(s) |-> f(s[i])]
Range(s) == {s[i] : i \in 1..Len(s)}
CodesOf(s) == {s[i].code : i \in 1..Len(s)}
Slice(s, n) == SubSeq(s, 1, Min(n, Len(s)))

\* query.service.ts queryRag: the local filter of the LLM's results
queryRagResults(llmResults, excludeCodes) ==
    IF excludeCodes # {}
    THEN SelectSeq(llmResults, LAMBDA r : r.code # "" /\ r.code \notin excludeCodes)
    ELSE llmResults

\* String.prototype.trim on the texts of the model
Trim(t) == IF t = " " THEN "" ELSE t

parseConstraints(query) ==
    [cleanQuery |-> Trim(query.text),
     hasFilter |-> query.must \/ query.mustCodes # {},
     bannedCodes |-> query.mustNot]

\* the vector search: with the filter if there is one, and once more without
\* it when that throws
similaritySearch(hasFilter, env) ==
    IF ~env.vectorStore THEN "ok"
    ELSE IF hasFilter
    THEN (IF env.searchFiltered = "ok" THEN "ok" ELSE env.search)
    ELSE (IF env.search = "ok" THEN "ok" ELSE env.search)

\* the synthesis call and the parse of its answer
synthesis(env) ==
    IF env.llm = "no_json" THEN "answer"
    ELSE IF env.llm \in {"throws", "bad_json"} THEN "empty"
    ELSE "results"

\* retrieval-reflection.service: the composite score of a candidate, in
\* quarters (0.5 x base, +3 for a matching +code token)
reflectionScore(c, mustCodes) ==
    c.score + (IF c.code # "" /\ c.code \in mustCodes THEN 12 ELSE 0)

\* Array.prototype.sort by descending score; candidates of equal score keep
\* their order
RECURSIVE sortByScore(_, _)
sortByScore(cs, mustCodes) ==
    IF cs = <<>> THEN <<>>
    ELSE LET best == CHOOSE i \in 1..Len(cs) :
                        /\ \A j \in 1..Len(cs) :
                              reflectionScore(cs[j], mustCodes) <= reflectionScore(cs[i], mustCodes)
                        /\ \A j \in 1..(i - 1) :
                              reflectionScore(cs[j], mustCodes) < reflectionScore(cs[i], mustCodes)
         IN  <<cs[best]>> \o
             sortByScore(SubSeq(cs, 1, best - 1) \o SubSeq(cs, best + 1, Len(cs)), mustCodes)

rerankWithReflection(mustCodes, mustNotCodes, candidates) ==
    IF candidates = <<>> THEN candidates
    ELSE sortByScore(SelectSeq(candidates,
                               LAMBDA c : ~(c.code # "" /\ c.code \in mustNotCodes)),
                     mustCodes)

\* the candidate list the later stages of queryRag use; a throw of the
\* reflection (env.reflection) is caught and leaves the list as it was
stage2Source(query, opts, env) ==
    LET source == IF env.vectorStore THEN env.candidates ELSE <<>>
        reflected == rerankWithReflection(query.mustCodes, query.mustNot, source)
    IN  IF opts.enableStage2Reflection /\ env.reflection = "ok" /\ Len(source) > 0
        THEN (IF Len(reflected) > 0 THEN reflected ELSE source)
        ELSE source

Raised == [kind |-> "raised", results |-> <<>>, source |-> <<>>]

\* the banned codes of the query go into the prompt of the synthesis call
queryRag(query, opts, env) ==
    IF Trim(query.text) = "" THEN Raised
    ELSE IF similaritySearch(parseConstraints(query).hasFilter, env) # "ok" THEN Raised
    ELSE IF env.cohere = "throws" THEN Raised
    ELSE [kind |-> IF synthesis(env) = "answer" THEN "answer"
                   ELSE IF synthesis(env) = "empty" THEN "results"
                   ELSE IF env.llm = "not_array" THEN "no_results"
                   ELSE "results",
          results |-> IF synthesis(env) = "results" /\ env.llm # "not_array"
                      THEN queryRagResults(env.llmResults, opts.excludeCodes)
                      ELSE <<>>,
          source |-> stage2Source(query, opts, env)]

\* the documents of the candidate list
Docs == [code : Codes \cup {""}, score : {0, 2}]
MaxCands == 2
CandidateLists == UNION {[1..n -> Docs] : n \in 0..MaxCands}

\* queries with constraints on codes, over every candidate list
CandidateInput ==
    \E mn \in SUBSET Codes, mc \in {{}, {"A"}}, s2 \in BOOLEAN, rf \in {"ok", "throws"},
       cs \in CandidateLists :
        /\ qquery = [text |-> "q", mustNot |-> mn, must |-> FALSE, mustCodes |-> mc]
        /\ qopts = [excludeCodes |-> {}, enableStage2Reflection |-> s2]
        /\ qenv = [CalmEnv EXCEPT !.candidates = cs, !.reflection = rf]

\* queries with bans, answered by an LLM that returns any items
BannedQueryInput ==
    \E mn \in SUBSET Codes, ex \in SUBSET Codes, s2 \in BOOLEAN, llm \in Responses :
        /\ qquery = [text |-> "q", mustNot |-> mn, must |-> FALSE, mustCodes |-> {}]
        /\ qopts = [excludeCodes |-> ex, enableStage2Reflection |-> s2]
        /\ qenv = [CalmEnv EXCEPT !.llmResults = llm]

\* queries in an environment whose calls can fail
FailingEnvInput ==
    \E t \in {"", " ", "q"}, m \in BOOLEAN, vs \in BOOLEAN,
       sf \in {"ok", "throws"}, se \in {"ok", "throws"},
       co \in {"none", "ok", "throws"}, rf \in {"ok", "throws"},
       ll \in {"results", "no_json", "throws", "bad_json", "not_array"} :
        /\ qquery = [text |-> t, mustNot |-> {}, must |-> m, mustCodes |-> {}]
        /\ qopts = [excludeCodes |-> {}, enableStage2Reflection |-> TRUE]
        /\ qenv = [vectorStore |-> vs, searchFiltered |-> sf, search |-> se, cohere |-> co,
                   reflection |-> rf, llm |-> ll,
                   llmResults |-> << [code |-> "A", d |-> 1] >>,
                   candidates |-> << [code |-> "A", score |-> 2] >>]

InitQ ==
    /\ qpc = "ready"
    /\ BannedQueryInput \/ FailingEnvInput \/ CandidateInput
    /\ qout = NoResponse
    /\ VerifierIdle
    /\ ExtractorIdle
    /\ ConcurrentIdle
    /\ AgentIdle

QueryRag ==
    /\ qpc = "ready"
    /\ qpc' = "done"
    /\ qout' = queryRag(qquery, qopts, qenv)
    /\ UNCHANGED <<qquery, qopts, qenv, vvars, xvars, cvars, avars>>

NextQ == QueryRag

SpecQ == InitQ /\ [][NextQ]_vars

(***************************************************************************)
(* agent-graph.service.ts                                                  *)
(***************************************************************************)
\* variant: the hints name no code
buildRefineHints_mustOnly(nfacts, failedCodes) ==
    [must |-> IF nfacts.modality # "null" THEN {<<"modality", nfacts.modality>>} ELSE {},
     must_not |-> {}]

buildRefineHints(nfacts, failedCodes) ==
    LET dur == IF nfacts.duration_min = NULLN THEN {}
               ELSE IF nfacts.duration_min < 6 THEN {<<"duration", "<6">>}
               ELSE IF nfacts.duration_min < 20 THEN {<<"duration", "6-20">>}
               ELSE IF nfacts.duration_min < 40 THEN {<<"duration", "20-40">>}
               ELSE {<<"duration", ">=40">>}
        mod == IF nfacts.modality # "null" THEN {<<"modality", nfacts.modality>>} ELSE {}
        set == IF nfacts.setting # "null" /\ nfacts.setting # "other"
               THEN {<<"setting", nfacts.setting>>} ELSE {}
        spc == IF nfacts.specialty # "null" THEN {<<"specialty", nfacts.specialty>>} ELSE {}
        vis == IF nfacts.first_or_review # "null"
               THEN {<<"visit", nfacts.first_or_review>>} ELSE {}
    IN  [must |-> dur \cup mod \cup set \cup spc \cup vis,
         must_not |-> {<<"code", c>> : c \in failedCodes}]

\* query-reflection.service: the duration constraint the reflector adds to
\* keyConstraints, as the set of its tokens (empty for null); with a known
\* duration_max the token is the interval `duration:${min}-${max}`
generateDurationConstraint(nfacts) ==
    IF nfacts.duration_min = NULLN THEN {}
    ELSE IF nfacts.duration_max # NULLN
    THEN {<<"duration", ToString(nfacts.duration_min) \o "-" \o ToString(nfacts.duration_max)>>}
    ELSE IF nfacts.duration_min < 6 THEN {<<"duration", "<6">>}
    ELSE IF nfacts.duration_min < 20 THEN {<<"duration", "6-20">>}
    ELSE IF nfacts.duration_min < 40 THEN {<<"duration", "20-40">>}
    ELSE {<<"duration", ">=40">>}

NullReport == [item_code |-> "", passes |-> FALSE, checks |-> <<>>,
               rationale |-> "null", categories |-> {}]

RuleOf(r) == buildItemRuleFromDesc(r.code, Samples[r.d].desc, Samples[r.d].meta)

\* one result with the outcome of verifyOneTri on it
triEntry(r, tri) == [code |-> r.code, d |-> r.d, verify |-> tri.report, soft |-> tri.soft]

triEntries(nfacts, rs) ==
    [i \in 1..Len(rs) |-> triEntry(rs[i], verifyOneTri(nfacts, RuleOf(rs[i])))]

\* variant: a candidate is kept whatever its report says
PassesTri_any(e) == TRUE

\* tri.report.passes
PassesTri(e) == e.verify.passes

VerifiedItemOf(e) == [code |-> e.code, d |-> e.d, verify |-> e.verify]

\* the lists verifyBatch builds from the verified results
splitBatch(es, resolved) ==
    [items |-> resolved.final,
     conflicts_resolved |-> resolved.notes,
     failedCodes |-> SeqMap(LAMBDA e : e.code, SelectSeq(es, LAMBDA e : ~PassesTri(e))),
     softCodes |-> SeqMap(LAMBDA e : e.code,
                          SelectSeq(es, LAMBDA e : PassesTri(e) /\ e.soft)),
     passedCodes |-> SeqMap(LAMBDA e : e.code, SelectSeq(es, LAMBDA e : PassesTri(e))),
     seenCodes |-> SeqMap(LAMBDA e : e.code, es)]

verifiedOf(es) == SeqMap(VerifiedItemOf, SelectSeq(es, LAMBDA e : PassesTri(e)))

batchOf(es) ==
    Once(es, LAMBDA vs : splitBatch(vs, resolveTimeConflicts(verifiedOf(vs))))

verifyBatch(nfacts, results) ==
    batchOf(triEntries(nfacts, SelectSeq(results, LAMBDA r : r.code # "")))

\* variant: every result of the response is kept
mergeResults_all(m, arr, banned) == m \o arr

\* the inner loop of propose / refine_propose over one response
RECURSIVE mergeResults(_, _, _)
mergeResults(m, arr, banned) ==
    IF arr = <<>> THEN m
    ELSE LET r == Head(arr)
         IN  IF r.code # "" /\ r.code \notin CodesOf(m) /\ r.code \notin banned
             THEN mergeResults(Append(m, r), Tail(arr), banned)
             ELSE mergeResults(m, Tail(arr), banned)

\* the filter of merged after the loop
filterMerged(m, banned) == SelectSeq(m, LAMBDA r : r.code # "" /\ r.code \notin banned)

\* variant: the Map is not used, the lists are concatenated
mergedMapValues_concat(items) == items

\* new Map, set(code, it) for every item, Array.from(values())
RECURSIVE mergedMapValues(_)
mergedMapValues(items) ==
    IF items = <<>> THEN <<>>
    ELSE LET front == mergedMapValues(SubSeq(items, 1, Len(items) - 1))
             it == items[Len(items)]
         IN  IF it.code \in CodesOf(front)
             THEN [i \in 1..Len(front) |-> IF front[i].code = it.code THEN it ELSE front[i]]
             ELSE Append(front, it)

MaxTries == 3
MaxIterations == 2

\* variant: only the codes that passed are banned
bannedAfterVerify_passedOnly(prevBanned, vetted) == prevBanned \cup Range(vetted.passedCodes)

\* variant: only the codes that failed are banned
bannedAfterVerify_failedOnly(prevBanned, vetted) == prevBanned \cup Range(vetted.failedCodes)

\* variant: the previous banned codes are dropped
bannedAfterVerify_replace(prevBanned, vetted) ==
    Range(vetted.failedCodes) \cup Range(vetted.passedCodes) \cup Range(vetted.seenCodes)

\* verify node: bannedSet
bannedAfterVerify(prevBanned, vetted) ==
    prevBanned \cup Range(vetted.failedCodes) \cup Range(vetted.passedCodes)
               \cup Range(vetted.seenCodes)

\* variant: the iteration cap is not looked at
verifyEdge_noCap(d, its) == IF d THEN "end" ELSE "critic"

\* variant: done is not looked at
verifyEdge_capOnly(d, its) == IF its >= MaxIterations THEN "end" ELSE "critic"

\* the conditional edge from verify
verifyEdge(d, its) == IF d \/ its >= MaxIterations THEN "end" ELSE "critic"

\* the value returned after graph.invoke
graphReturn(acc, its, nfacts, initialTop) ==
    [kind |-> "graph", items |-> Slice(acc, initialTop), iterations |-> its,
     note_facts |-> nfacts]

(***************************************************************************)
(* Spec: one run of agenticQueryRag(note, top, {includeVerify}).           *)
(***************************************************************************)
Init ==
    /\ pc = "start"
    /\ includeVerify \in BOOLEAN
    /\ top \in Tops
    /\ topN = 0 /\ facts = BaseNote
    /\ iterations = 0 /\ done = FALSE /\ proposal = <<>> /\ accepted = <<>>
    /\ bannedCodes = {} /\ seenCodes = {} /\ refine = NoRefine
    /\ attempt = 0 /\ merged = <<>> /\ fbItems = <<>> /\ fbFailed = {}
    /\ result = NoResult
    /\ nPropose = 0 /\ nRefine = 0 /\ nVerify = 0 /\ nCalls = 0
    /\ proposals = <<>> /\ failedEver = {}
    /\ fbCalls = 0 /\ fbVerifies = 0
    /\ VerifierIdle
    /\ ExtractorIdle
    /\ RetrieverIdle
    /\ ConcurrentIdle

hist == <<nPropose, nRefine, nVerify, nCalls, proposals, failedEver>>
loopv == <<attempt, merged>>
fbv == <<fbItems, fbFailed, fbCalls, fbVerifies>>
fixed == <<includeVerify, top>>

\* compile the graph and invoke it with the initial state
Invoke ==
    /\ pc = "start"
    /\ topN' = clampTop(top)
    /\ iterations' = 0 /\ done' = FALSE /\ bannedCodes' = {} /\ seenCodes' = {}
    /\ pc' = "extract_facts"
    /\ UNCHANGED <<fixed, facts, proposal, accepted, refine, loopv, fbv, result, hist, vvars, xvars, qvars, cvars>>

ExtractFactsNode ==
    /\ pc = "extract_facts"
    /\ facts' \in FactSamples
    /\ pc' = "query_reflection"
    /\ UNCHANGED <<fixed, topN, iterations, done, proposal, accepted, bannedCodes,
                   seenCodes, refine, loopv, fbv, result, hist, vvars, xvars, qvars, cvars>>

QueryReflectionNode ==
    /\ pc = "query_reflection"
    /\ pc' = IF includeVerify THEN "propose" ELSE "smart_propose"
    /\ UNCHANGED <<fixed, topN, facts, iterations, done, proposal, accepted, bannedCodes,
                   seenCodes, refine, loopv, fbv, result, hist, vvars, xvars, qvars, cvars>>

\* one pass of the retry loop of propose; the node ends with the pass that
\* collects k results or is the third
ProposeNode ==
    /\ pc = "propose"
    /\ \E llm \in Responses :
        LET k == IF iterations = 0 THEN topN + 3 ELSE topN
            arr == queryRagResults(llm, bannedCodes)
            m == mergeResults(merged, arr, bannedCodes)
        IN  IF Len(m) >= k \/ attempt + 1 >= MaxTries
            THEN /\ proposal' = filterMerged(m, bannedCodes)
                 /\ attempt' = 0 /\ merged' = <<>>
                 /\ pc' = "verify"
            ELSE /\ attempt' = attempt + 1 /\ merged' = m
                 /\ UNCHANGED <<proposal, pc>>
    /\ nPropose' = IF attempt = 0 THEN nPropose + 1 ELSE nPropose
    /\ nCalls' = nCalls + 1
    /\ UNCHANGED <<fixed, topN, facts, iterations, done, accepted, bannedCodes,
                   seenCodes, refine, fbv, result, nRefine, nVerify, proposals,
                   failedEver, vvars, xvars, qvars, cvars>>

\* the verify node's update and the conditional edge out of it
verifyUpdate(vetted) ==
    /\ accepted' = mergedMapValues(accepted \o vetted.items)
    /\ bannedCodes' = bannedAfterVerify(bannedCodes, vetted)
    /\ done' = (  (Len(vetted.items) = 0 /\ Len(vetted.failedCodes) = 0)
               \/ Len(accepted') >= topN )
    /\ seenCodes' = Range(vetted.seenCodes)
    /\ failedEver' = failedEver \cup Range(vetted.failedCodes)
    /\ IF verifyEdge(done', iterations) = "end"
       THEN /\ pc' = "returned"
            /\ result' = graphReturn(accepted', iterations, facts, clampTop(top))
       ELSE /\ pc' = "critic"
            /\ UNCHANGED result

VerifyNode ==
    /\ pc = "verify"
    /\ \E vetted \in {verifyBatch(facts, proposal)} : verifyUpdate(vetted)
    /\ nVerify' = nVerify + 1
    /\ proposals' = Append(proposals, CodesOf(proposal))
    /\ UNCHANGED <<fixed, topN, facts, iterations, proposal, refine, loopv, fbv,
                   nPropose, nRefine, nCalls, vvars, xvars, qvars, cvars>>

\* variant: the edge out of critic leads back to critic
CriticNode_selfLoop ==
    /\ pc = "critic"
    /\ refine' = buildRefineHints(facts, bannedCodes)
    /\ pc' = "critic"
    /\ UNCHANGED <<fixed, topN, facts, iterations, done, proposal, accepted, bannedCodes,
                   seenCodes, loopv, fbv, result, hist, vvars, xvars, qvars, cvars>>

CriticNode ==
    /\ pc = "critic"
    /\ refine' = buildRefineHints(facts, bannedCodes)
    /\ pc' = "refine_propose"
    /\ UNCHANGED <<fixed, topN, facts, iterations, done, proposal, accepted, bannedCodes,
                   seenCodes, loopv, fbv, result, hist, vvars, xvars, qvars, cvars>>

\* the request of refine_propose: the constraints of queryRagWithConstraints
\* and the excludeCodes option
refineRequest(rf, banned) ==
    [must |-> rf.must, must_not |-> rf.must_not, excludeCodes |-> banned]

RefineProposeNode ==
    /\ pc = "refine_propose"
    /\ \E llm \in Responses :
        LET k == topN
            arr == queryRagResults(llm, refineRequest(refine, bannedCodes).excludeCodes)
            m == mergeResults(merged, arr, bannedCodes)
        IN  IF Len(m) >= k \/ attempt + 1 >= MaxTries
            THEN /\ proposal' = filterMerged(m, bannedCodes)
                 /\ iterations' = iterations + 1
                 /\ attempt' = 0 /\ merged' = <<>>
                 /\ pc' = "verify"
            ELSE /\ attempt' = attempt + 1 /\ merged' = m
                 /\ UNCHANGED <<proposal, iterations, pc>>
    /\ nRefine' = IF attempt = 0 THEN nRefine + 1 ELSE nRefine
    /\ nCalls' = nCalls + 1
    /\ UNCHANGED <<fixed, topN, facts, done, accepted, bannedCodes, seenCodes, refine,
                   fbv, result, nPropose, nVerify, proposals, failedEver, vvars, xvars, qvars, cvars>>

SmartProposeNode ==
    /\ pc = "smart_propose"
    /\ \E llm \in Responses :
        LET results == queryRagResults(llm, {})
            items == [i \in 1..Len(results) |->
                        [code |-> results[i].code, d |-> results[i].d, verify |-> NullReport]]
        IN  /\ accepted' = items
            /\ result' = graphReturn(items, 0, facts, clampTop(top))
    /\ done' = TRUE
    /\ iterations' = 0
    /\ pc' = "returned"
    /\ nCalls' = nCalls + 1
    /\ UNCHANGED <<fixed, topN, facts, proposal, bannedCodes, seenCodes, refine, loopv,
                   fbv, nPropose, nRefine, nVerify, proposals, failedEver, vvars, xvars, qvars, cvars>>

\* an import, an LLM call or a Retriever call of the graph throws: the catch
\* block starts the fallback pipeline and the graph's state is dropped
GraphThrows ==
    /\ pc \in {"start", "extract_facts", "query_reflection", "propose", "verify",
               "refine_propose", "smart_propose"}
    /\ pc' = "fb_extract"
    /\ topN' = 0 /\ facts' = BaseNote /\ iterations' = 0 /\ done' = FALSE
    /\ proposal' = <<>> /\ accepted' = <<>> /\ bannedCodes' = {} /\ seenCodes' = {}
    /\ refine' = NoRefine /\ attempt' = 0 /\ merged' = <<>>
    /\ UNCHANGED <<fixed, fbv, result, hist, vvars, xvars, qvars, cvars>>

FallbackExtract ==
    /\ pc = "fb_extract"
    /\ topN' = clampTop(top)
    /\ facts' \in FactSamples
    /\ pc' = "fb_retrieve"
    /\ UNCHANGED <<fixed, iterations, done, proposal, accepted, bannedCodes, seenCodes,
                   refine, loopv, fbv, result, hist, vvars, xvars, qvars, cvars>>

fallbackReturn(items, nfacts, initialTop) ==
    [kind |-> "fallback", items |-> Slice(items, initialTop), iterations |-> 1,
     note_facts |-> nfacts]

\* the first retrieval of the fallback and what follows its verification
fallbackFirst(vetted) ==
    /\ fbItems' = vetted.items
    /\ IF Len(vetted.items) < topN
       THEN /\ fbFailed' = Range(vetted.failedCodes) \cup Range(vetted.passedCodes)
                              \cup Range(vetted.seenCodes)
            /\ refine' = buildRefineHints(facts, fbFailed')
            /\ pc' = "fb_refine"
            /\ UNCHANGED result
       ELSE /\ result' = fallbackReturn(vetted.items, facts, topN)
            /\ pc' = "returned"
            /\ UNCHANGED <<fbFailed, refine>>

FallbackRetrieve ==
    /\ pc = "fb_retrieve"
    /\ \E llm \in Responses :
        fallbackFirst(verifyBatch(facts, queryRagResults(llm, {})))
    /\ nCalls' = nCalls + 1
    /\ fbCalls' = fbCalls + 1
    /\ fbVerifies' = fbVerifies + 1
    /\ UNCHANGED <<fixed, topN, facts, iterations, done, proposal, accepted, bannedCodes,
                   seenCodes, loopv, nPropose, nRefine, nVerify, proposals, failedEver,
                   vvars, xvars, qvars, cvars>>

\* the second retrieval: its verified items are added when the first
\* retrieval did not return their code
fallbackSecond(vetted2) ==
    /\ fbItems' = fbItems \o SelectSeq(vetted2.items,
                                       LAMBDA it : it.code \notin CodesOf(fbItems))
    /\ result' = fallbackReturn(fbItems', facts, topN)

FallbackRefine ==
    /\ pc = "fb_refine"
    /\ \E llm \in Responses :
        fallbackSecond(verifyBatch(facts, queryRagResults(llm, {})))
    /\ pc' = "returned"
    /\ nCalls' = nCalls + 1
    /\ fbCalls' = fbCalls + 1
    /\ fbVerifies' = fbVerifies + 1
    /\ UNCHANGED <<fixed, topN, facts, iterations, done, proposal, accepted, bannedCodes,
                   seenCodes, refine, loopv, fbFailed, nPropose, nRefine, nVerify,
                   proposals, failedEver, vvars, xvars, qvars, cvars>>

\* a call of the fallback pipeline throws: agenticQueryRag rejects
FallbackThrows ==
    /\ pc \in {"fb_extract", "fb_retrieve", "fb_refine"}
    /\ pc' = "raised"
    /\ result' = [NoResult EXCEPT !.kind = "raised"]
    /\ UNCHANGED <<fixed, topN, facts, iterations, done, proposal, accepted, bannedCodes,
                   seenCodes, refine, loopv, fbv, hist, vvars, xvars, qvars, cvars>>

Next ==
    \/ Invoke
    \/ ExtractFactsNode
    \/ QueryReflectionNode
    \/ ProposeNode
    \/ VerifyNode
    \/ CriticNode
    \/ RefineProposeNode
    \/ SmartProposeNode
    \/ GraphThrows
    \/ FallbackExtract
    \/ FallbackRetrieve
    \/ FallbackRefine
    \/ FallbackThrows

Spec == Init /\ [][Next]_vars

\* every external call (LLM, vector search, reranker) eventually returns or
\* throws, and the event loop then runs the continuation: a step that is
\* possible is eventually taken
SpecFair == Spec /\ WF_vars(Next)

(***************************************************************************)
(* SpecC: two Deep-mode runs of agenticQueryRag on the same service        *)
(* instance, interleaved at their awaits.  Each call of agenticQueryRag    *)
(* compiles its own graph and invokes it with its own initial state; the   *)
(* services hold no field but the handles of RagInfraService.  The calls   *)
(* of a run receive the responses of the run's script, in order.           *)
(***************************************************************************)
Runs == {1, 2}

ResponseSamples ==
    { <<>>,
      << [code |-> "A", d |-> 1] >>,
      << [code |-> "B", d |-> 2], [code |-> "A", d |-> 1], [code |-> "C", d |-> 2] >> }

ScriptLen == 2
Scripts == [1..ScriptLen -> ResponseSamples]

\* the response to the call a run makes after `calls` earlier calls
responseOf(script, calls) == script[(calls % Len(script)) + 1]

\* the locals of a call agenticQueryRag(note, top) and the state of its graph
\* before graph.invoke; note_facts is what the Fact Extractor returns for note
NewRun(t, nf) ==
    [pc |-> "start", top |-> t, note_facts |-> nf, topN |-> 0, facts |-> BaseNote,
     iterations |-> 0, done |-> FALSE, proposal |-> <<>>, accepted |-> <<>>,
     bannedCodes |-> {}, seenCodes |-> {}, refine |-> NoRefine,
     attempt |-> 0, merged |-> <<>>, calls |-> 0, result |-> NoResult]

\* one pass of the retry loop of propose (k = topN + 3) or refine_propose
\* (k = topN) on the state s of a graph
proposeStep(s, llm, k, its) ==
    LET arr == queryRagResults(llm, s.bannedCodes)
        m == mergeResults(s.merged, arr, s.bannedCodes)
    IN  IF Len(m) >= k \/ s.attempt + 1 >= MaxTries
        THEN [s EXCEPT !.proposal = filterMerged(m, s.bannedCodes),
                       !.iterations = its, !.attempt = 0, !.merged = <<>>,
                       !.calls = s.calls + 1, !.pc = "verify"]
        ELSE [s EXCEPT !.attempt = s.attempt + 1, !.merged = m, !.calls = s.calls + 1]

\* the verify node and the conditional edge on the state s of a graph
verifyStep(s, vetted) ==
    LET acc == mergedMapValues(s.accepted \o vetted.items)
        d == (Len(vetted.items) = 0 /\ Len(vetted.failedCodes) = 0) \/ Len(acc) >= s.topN
    IN  [s EXCEPT !.accepted = acc,
                  !.bannedCodes = bannedAfterVerify(s.bannedCodes, vetted),
                  !.done = d,
                  !.seenCodes = Range(vetted.seenCodes),
                  !.pc = IF verifyEdge(d, s.iterations) = "end" THEN "returned" ELSE "critic",
                  !.result = IF verifyEdge(d, s.iterations) = "end"
                             THEN graphReturn(acc, s.iterations, s.facts, clampTop(s.top))
                             ELSE s.result]

\* the step a run takes from the state s of its graph
nodeStep(s, llm) ==
    CASE s.pc = "start" ->
            [s EXCEPT !.topN = clampTop(s.top), !.pc = "extract_facts"]
      [] s.pc = "extract_facts" ->
            [s EXCEPT !.facts = s.note_facts, !.pc = "query_reflection"]
      [] s.pc = "query_reflection" -> [s EXCEPT !.pc = "propose"]
      [] s.pc = "propose" ->
            proposeStep(s, llm, IF s.iterations = 0 THEN s.topN + 3 ELSE s.topN, s.iterations)
      [] s.pc = "verify" -> verifyStep(s, verifyBatch(s.facts, s.proposal))
      [] s.pc = "critic" ->
            [s EXCEPT !.refine = buildRefineHints(s.facts, s.bannedCodes),
                      !.pc = "refine_propose"]
      [] s.pc = "refine_propose" -> proposeStep(s, llm, s.topN, s.iterations + 1)
      [] OTHER -> s

\* variant: the graphs of all runs work on one state object
stateOf_shared(rs, r) == rs[1]

\* the state a node of run r is given: the state of the graph of run r
stateOf(rs, r) == rs[r]

\* rag-infra.service.ts initIfNeeded: it has no await, so it runs in one piece
initIfNeeded(infra) == IF infra.vectorStore THEN infra ELSE [infra EXCEPT !.vectorStore = TRUE]

InitC ==
    /\ \E t \in {1, 2}, nf \in FactSamples :
        cruns = [r \in Runs |-> IF r = 1 THEN NewRun(t, nf)
                                ELSE NewRun(2, [BaseNote EXCEPT !.modality = "video"])]
    /\ \E s1 \in Scripts, s2 \in Scripts : cscript = [r \in Runs |-> IF r = 1 THEN s1 ELSE s2]
    /\ cinfra = NoInfra
    /\ VerifierIdle
    /\ ExtractorIdle
    /\ RetrieverIdle
    /\ AgentIdle

\* run r resumes at its await and runs to its next one
RunStep(r) ==
    /\ cruns[r].pc # "returned"
    /\ cruns' = [cruns EXCEPT
                    ![r] = nodeStep(stateOf(cruns, r),
                                    responseOf(cscript[r], stateOf(cruns, r).calls))]
    /\ cinfra' = IF cruns[r].pc \in {"propose", "refine_propose"}
                 THEN initIfNeeded(cinfra) ELSE cinfra
    /\ UNCHANGED <<cscript, vvars, xvars, qvars, avars>>

NextC == \E r \in Runs : RunStep(r)

SpecC == InitC /\ [][NextC]_vars

\* the run executed alone, from the state s of its graph to its return
RECURSIVE runAlone(_, _)
runAlone(s, script) ==
    IF s.pc = "returned" THEN s
    ELSE runAlone(nodeStep(s, responseOf(script, s.calls)), script)

(***************************************************************************)
(* Properties of a run of agenticQueryRag.                                 *)
(***************************************************************************)
Returned == pc = "returned"
GraphReturned == pc = "returned" /\ result.kind = "graph"
DeepGraphReturned == GraphReturned /\ includeVerify
UniqueCodes(items) ==
    \A i, j \in 1..Len(items) : i < j => items[i].code # items[j].code

\* C1: whatever path a run takes (Deep graph, Smart graph, fallback), the
\* returned items are at most topN (the requested top clamped to 1..10) and no
\* two of them have the same code.
C1_AtMostTopNUnique ==
    Returned => /\ Len(result.items) <= clampTop(top)
                /\ UniqueCodes(result.items)

\* C2: in a Deep-mode run the proposals handed to the verify node in two
\* different rounds have no code in common.
C2_NoReproposal ==
    \A i, j \in 1..Len(proposals) : i < j => proposals[i] \cap proposals[j] = {}

C2_Witness ==
    /\ DeepGraphReturned
    /\ Len(proposals) = 3
    /\ \A i \in 1..3 : proposals[i] # {}

\* C3 as stated: when the result is emitted no code of the returned items is in
\* bannedCodes.
C3_NoReturnedCodeBanned ==
    Returned => CodesOf(result.items) \cap bannedCodes = {}

\* C3 as the code has it: when a Deep-mode run returns through the graph, every
\* returned code is in bannedCodes and none of them was reported as failed by
\* the verify node; a Smart-mode run returns with bannedCodes empty.
C3_ReturnedBannedNeverFailed ==
    GraphReturned =>
        IF includeVerify
        THEN /\ CodesOf(result.items) \subseteq bannedCodes
             /\ CodesOf(result.items) \cap failedEver = {}
        ELSE bannedCodes = {}

C3_Witness ==
    /\ DeepGraphReturned
    /\ result.items # <<>>
    /\ failedEver # {}

\* C4: every item a run returns after verification (Deep mode through the
\* graph, or the fallback pipeline) carries the report verifyOneTri computes
\* for it against the run's NoteFacts, that report has passes = TRUE and none
\* of its checks failed; the same holds of every item in accepted.
Vetted(it, nfacts) ==
    /\ it.verify = verifyOneTri(nfacts, RuleOf(it)).report
    /\ it.verify.passes
    /\ \A k \in 1..Len(it.verify.checks) : it.verify.checks[k].pass

C4_ReturnedItemsPass ==
    /\ (Returned /\ (includeVerify \/ result.kind = "fallback")) =>
          \A i \in 1..Len(result.items) : Vetted(result.items[i], result.note_facts)
    /\ includeVerify => \A i \in 1..Len(accepted) : Vetted(accepted[i], facts)

C4_Witness ==
    /\ DeepGraphReturned
    /\ Len(result.items) = 2
    /\ failedEver # {}
    /\ nVerify >= 2

\* C5: every step of a node of the graph leaves bannedCodes the same or larger,
\* and after a step of the verify node bannedCodes contains every code of every
\* proposal verified so far.
C5_BannedGrows ==
    [][ pc' # "fb_extract" =>
          /\ bannedCodes \subseteq bannedCodes'
          /\ pc = "verify" =>
                \A i \in 1..Len(proposals') : proposals'[i] \subseteq bannedCodes' ]_vars

C5_Witness ==
    /\ pc = "critic"
    /\ nVerify = 2
    /\ proposals[1] # {} /\ proposals[2] # {}
    /\ proposals[1] \cup proposals[2] \subseteq bannedCodes

\* C6: in a run the propose node runs at most once, refine_propose at most
\* twice, the verify node at most three times, and iterations never exceeds 2.
C6_BoundedRounds ==
    /\ nPropose <= 1
    /\ nRefine <= 2
    /\ nPropose + nRefine <= 3
    /\ nVerify <= 3
    /\ iterations <= 2
    /\ result.iterations <= 2

C6_Witness ==
    /\ DeepGraphReturned
    /\ nPropose = 1 /\ nRefine = 2 /\ nVerify = 3
    /\ result.iterations = 2

(***************************************************************************)
(* Further properties of verifyOneTri (SpecV).                             *)
(***************************************************************************)
RemoteEvidence ==
    TextIncludesAny(vnote.keywords, {"telehealth", "phone", "home visit", "video",
                                      "virtual", "remote"})
HospitalMention ==
    TextIncludesAny(vnote.keywords, {"hospital", "consulting rooms", "clinic"})
RequiresHospitalOrRooms ==
    vrule.setting_allowed \cap {"hospital", "consulting_rooms"} # {}

\* C11: for a rule that constrains setting: with the note setting null or
\* 'other' the setting check is FAIL only if the keywords carry
\* telehealth/remote/home evidence and the rule requires hospital or consulting
\* rooms, and SOFT otherwise; with a specific note setting it is PASS if the
\* setting is allowed, FAIL if the note mentions hospital/consulting rooms
\* while the rule allows neither, and SOFT otherwise.
C11_Setting ==
    (vpc = "done" /\ vrule.setting_allowed # {}) =>
        IF vnote.setting \in {"null", "other"}
        THEN IF RemoteEvidence /\ RequiresHospitalOrRooms
             THEN TriResult("setting") \in {"FAIL", "SOFT"}
             ELSE TriResult("setting") = "SOFT"
        ELSE IF vnote.setting \in vrule.setting_allowed
             THEN TriResult("setting") = "PASS"
             ELSE IF HospitalMention /\ ~RequiresHospitalOrRooms
                  THEN TriResult("setting") = "FAIL"
                  ELSE TriResult("setting") = "SOFT"

UnmatchedRule == buildItemRuleFromDesc("A", EmptyDesc, NoMeta)
NoFailCheck == \A i \in 1..Len(vout.tri) : vout.tri[i].result # "FAIL"

\* C12 as stated: for the rule built from a description in which no pattern
\* matches and empty metadata, verifyOneTri has no FAIL check for any
\* NoteFacts and the report has passes = TRUE.
C12_UnmatchedRuleNeverFails ==
    (vpc = "done" /\ vrule = UnmatchedRule) => (NoFailCheck /\ vout.report.passes)

\* C12 amended: for that rule modality_allowed is {in_person} and every other
\* requirement is absent; the modality check is FAIL exactly when the note's
\* modality is video or phone, no other check is FAIL, and passes is TRUE
\* exactly when the note's modality is neither video nor phone.
C12_UnmatchedRuleFailsOnlyModality ==
    (vpc = "done" /\ vrule = UnmatchedRule) =>
        /\ vrule.modality_allowed = {"in_person"}
        /\ TriResult("modality") = "FAIL" <=> vnote.modality \in {"video", "phone"}
        /\ \A i \in 1..Len(vout.tri) :
              vout.tri[i].name # "modality" => vout.tri[i].result # "FAIL"
        /\ vout.report.passes <=> vnote.modality \notin {"video", "phone"}

C12_Witness ==
    /\ vpc = "done" /\ vrule = UnmatchedRule
    /\ vnote.modality = "video" /\ vnote.keywords # {} /\ vnote.age # NULLN
    /\ ~vout.report.passes

NullFactNoFail(isNull, check) == isNull => TriResult(check) # "FAIL"
DurationNull == vnote.duration_min = NULLN /\ vnote.duration_max = NULLN
NullFactsOtherThanDurationSetting ==
    /\ NullFactNoFail(vnote.age = NULLN, "age")
    /\ NullFactNoFail(vnote.modality = "null", "modality")
    /\ NullFactNoFail(vnote.first_or_review = "null", "first_or_review")
    /\ NullFactNoFail(vnote.referral_present = "null", "referral")
    /\ NullFactNoFail(vnote.specialty = "null", "specialty")
    /\ NullFactNoFail(vnote.is_gp = "null", "is_gp")
    /\ NullFactNoFail(vnote.is_specialist = "null", "is_specialist")
    /\ NullFactNoFail(vnote.is_emergency = "null", "is_emergency")

Extracted == xpc = "done"

\* C14: a value the heuristic found is the value returned: for every field,
\* a non-null heuristic value wins over the LLM's, which only fills gaps.
C14_HeuristicPreferred ==
    Extracted =>
        /\ xout.seed.duration_min # NULLN => xout.facts.duration_min = xout.seed.duration_min
        /\ xout.seed.duration_max # NULLN => xout.facts.duration_max = xout.seed.duration_max
        /\ xout.seed.modality # "null" => xout.facts.modality = xout.seed.modality
        /\ xout.seed.setting # "null" => xout.facts.setting = xout.seed.setting
        /\ xout.seed.first_or_review # "null" =>
               xout.facts.first_or_review = xout.seed.first_or_review
        /\ xout.seed.age # NULLN => xout.facts.age = xout.seed.age
        /\ xout.seed.is_gp # "null" => xout.facts.is_gp = xout.seed.is_gp

\* C15: the returned facts have duration_min <= duration_max when both are
\* non-null, on the heuristic path, the LLM path and the LLM-failure path.
C15_DurationOrdered ==
    Extracted =>
        (xout.facts.duration_min # NULLN /\ xout.facts.duration_max # NULLN
            => xout.facts.duration_min <= xout.facts.duration_max)

\* C16: a note "A-B minutes" with no "exactly" gives the heuristic duration
\* [A, B], both ends inclusive; "19-22 minutes" gives [19, 22], and against a
\* rule window [20, 40) its time_window check is SOFT.
C16_RangePhrase ==
    Extracted /\ xnote.dur.form = "range" =>
        /\ xout.seed.duration_min = xnote.dur.A
        /\ xout.seed.duration_max = xnote.dur.B
        /\ (xnote.dur.A = 19 /\ xnote.dur.B = 22 =>
               triTime(xout.seed,
                       [BaseRule EXCEPT !.time_window =
                           [present |-> TRUE, min |-> 20, max |-> 40]]).result = "SOFT")


(***************************************************************************)
(* Properties of queryRag (checked under SpecQ).                           *)
(***************************************************************************)
Retrieved == qpc = "done"

\* C17: no result of queryRag has a code of opts.excludeCodes or a code named
\* by a -code:X token of the query, whatever the synthesis LLM returned.
C17_NoBannedResult ==
    Retrieved =>
        \A i \in 1..Len(qout.results) :
            qout.results[i].code \notin qopts.excludeCodes \cup qquery.mustNot

\* C18: for a non-empty query queryRag returns a response and does not raise,
\* also when the vector search, the reranker or the synthesis LLM fails; it
\* raises for an empty query.
C18_RaisesOnlyOnEmptyQuery ==
    Retrieved => (qout.kind = "raised" <=> Trim(qquery.text) = "")


(***************************************************************************)
(* Properties of the fallback pipeline and of Smart mode (checked under    *)
(* Spec).                                                                  *)
(***************************************************************************)
FallbackReturned == pc = "returned" /\ result.kind = "fallback"

\* the steps of the fallback: it starts from an empty state, retrieves again
\* only when fewer than topN items were kept, calls the Retriever at most
\* twice and returns iterations = 1
C19_FallbackSteps ==
    [][/\ (pc # "fb_extract" /\ pc' = "fb_extract" =>
              /\ facts' = BaseNote /\ accepted' = <<>> /\ proposal' = <<>>
              /\ bannedCodes' = {} /\ seenCodes' = {}
              /\ fbItems' = <<>> /\ fbCalls' = 0 /\ fbVerifies' = 0)
       /\ (pc = "fb_retrieve" /\ pc' = "fb_refine" => Len(fbItems') < topN)
       /\ (pc = "fb_retrieve" /\ pc' = "returned" => Len(fbItems') >= topN)
       /\ (pc = "fb_refine" => pc' \in {"returned", "raised"})
       /\ (pc' = "returned" /\ result'.kind = "fallback" =>
              /\ fbCalls' \in {1, 2}
              /\ fbVerifies' = fbCalls'
              /\ result'.iterations = 1)]_vars

\* the items the second retrieval adds repeat no code already kept
C19_MergeNoRepeat ==
    [][pc = "fb_refine" /\ pc' = "returned" =>
          \A i \in Len(fbItems) + 1 .. Len(fbItems') :
              \A j \in 1 .. i - 1 : fbItems'[j].code # fbItems'[i].code]_vars

\* C19: when the graph throws, the fallback pipeline runs from scratch:
\* extract, retrieve, verify and, only if fewer than topN items passed, one
\* constrained retrieval and verification whose passed items are merged
\* without repeating a code already kept; at most 2 Retriever calls are made
\* and the returned iterations is 1.
C19_Fallback == C19_FallbackSteps /\ C19_MergeNoRepeat


\* the nodes a Smart-mode graph executes, in order
C20_SmartOrder ==
    [][~includeVerify /\ pc' # pc /\ pc' \notin {"fb_extract", "fb_retrieve", "fb_refine", "raised"}
          /\ pc \notin {"fb_extract", "fb_retrieve", "fb_refine"} =>
          <<pc, pc'>> \in {<<"start", "extract_facts">>,
                           <<"extract_facts", "query_reflection">>,
                           <<"query_reflection", "smart_propose">>,
                           <<"smart_propose", "returned">>}]_vars

\* what a Smart-mode run returns
C20_SmartReturn ==
    Returned /\ ~includeVerify =>
        /\ nCalls = 1
        /\ nVerify = 0 /\ fbVerifies = 0
        /\ \A i \in 1..Len(result.items) : result.items[i].verify = NullReport

\* C20: a Smart-mode run (includeVerify = false) executes extract_facts,
\* query_reflection, smart_propose, END in this order, calls the Retriever
\* exactly once, never invokes the Verifier and returns items whose verify is
\* null.
C20_SmartMode == C20_SmartOrder /\ [](C20_SmartReturn)


(***************************************************************************)
(* Properties of the categories and of keyword_refine (SpecV).             *)
(***************************************************************************)
SurgeryRule ==
    vrule.group # <<>> /\ (StartsWith(vrule.group, <<"T", "8">>) \/ IncludesAnaes(vrule.group))

KeywordRefine == vout.tri[Len(vout.tri)]

Alone(r) == runAlone(NewRun(cruns[r].top, cruns[r].note_facts), cscript[r])

NoNewResults(vetted) == Len(vetted.passedCodes) = 0 /\ Len(vetted.failedCodes) = 0

\* C23: in Deep mode a verify node that completes is followed by END exactly
\* when the round produced no passed and no failed code, or the accepted
\* items are at least topN, or iterations >= 2; otherwise the run continues
\* with critic, then refine_propose, then verify.
C23_VerifyEdge ==
    [][/\ (pc = "verify" /\ pc' # "fb_extract" =>
              /\ pc' \in {"returned", "critic"}
              /\ pc' = "returned" <=>
                    \/ NoNewResults(verifyBatch(facts, proposal))
                    \/ Len(accepted') >= topN
                    \/ iterations >= 2)
       /\ (pc = "critic" => pc' = "refine_propose")
       /\ (pc = "refine_propose" /\ pc' \notin {"refine_propose", "fb_extract"} =>
              pc' = "verify")]_vars

C23_Witness ==
    /\ pc = "verify" /\ includeVerify /\ nVerify = 1 /\ nRefine = 1
    /\ iterations = 1 /\ ~done /\ Len(accepted) < topN /\ Len(proposal) > 0


\* C24: in every refinement round the request of refine_propose has a
\* must_not constraint code:c for every code c of every earlier proposal of
\* the run, the round just verified included, and its excludeCodes is the same
\* set of codes.
C24_RefineRequestBans ==
    pc = "refine_propose" =>
        LET req == refineRequest(refine, bannedCodes)
        IN  /\ \A i \in 1..Len(proposals) :
                \A c \in proposals[i] : <<"code", c>> \in req.must_not
            /\ req.excludeCodes = {t[2] : t \in req.must_not}

C24_Witness ==
    /\ pc = "refine_propose" /\ nRefine = 1 /\ attempt = 0 /\ Len(proposals) = 2
    /\ proposals[1] # {} /\ proposals[2] # {} /\ proposals[1] \cap proposals[2] = {}
    /\ failedEver # {} /\ accepted # <<>>


ProposeK == IF pc = "propose" /\ iterations = 0 THEN topN + 3 ELSE topN

C26_BannedCandidatesDropped ==
    Retrieved /\ qout.kind # "raised" /\ qopts.enableStage2Reflection
              /\ qenv.reflection = "ok" =>
        \A i \in 1..Len(qout.source) : qout.source[i].code \notin qquery.mustNot


\* C27: for the facts extracted from a note with duration_min known, the
\* duration constraint of the Query Reflector is the critic's: the same
\* token, one of duration:<6, duration:6-20, duration:20-40, duration:>=40.
DurationBuckets ==
    {<<"duration", "<6">>, <<"duration", "6-20">>, <<"duration", "20-40">>,
     <<"duration", ">=40">>}

C27_SameDurationBucket ==
    Extracted /\ xout.facts.duration_min # NULLN =>
        /\ generateDurationConstraint(xout.facts) \subseteq DurationBuckets
        /\ generateDurationConstraint(xout.facts) =
               {t \in buildRefineHints(xout.facts, {}).must : t[1] = "duration"}


\* C28: the categories of a rule are those of the one row of the table that
\* lists its group: a rule of group A11 is AfterHours only and a rule of
\* group A40 is Telehealth only, and for neither of them is the GP or the
\* Specialist context of the note checked (is_gp and is_specialist are PASS
\* with no detail).
ContextUnchecked ==
    \A i \in 1..Len(vout.tri) :
        vout.tri[i].name \in {"is_gp", "is_specialist"} =>
            vout.tri[i].result = "PASS" /\ vout.tri[i].details = ""

C28_CategoryTableExclusive ==
    vpc = "done" =>
        /\ vrule.group = <<"A", "1", "1">> =>
              vout.report.categories = {"AfterHours"} /\ ContextUnchecked
        /\ vrule.group = <<"A", "4", "0">> =>
              vout.report.categories = {"Telehealth"} /\ ContextUnchecked


(***************************************************************************)
(* Properties of the rules the orchestrator builds (Spec).                 *)
(***************************************************************************)
BareRule(rule) == rule.group = <<>> /\ rule.subgroup = "" /\ rule.display = ""

ContextChecks == {"is_gp", "is_specialist", "is_emergency", "keyword_refine"}

\* an item without a report (Smart mode) has verify = null
OtherReport(rep) ==
    rep # NullReport =>
    /\ rep.categories = {"Other"}
    /\ \A i \in 1..Len(rep.checks) :
          rep.checks[i].name \in ContextChecks =>
              rep.checks[i].pass /\ rep.checks[i].details = ""

\* C29: in every run of the orchestrator, graph or fallback, the rule built
\* for a candidate has no group, no subgroup and no evidence span, whatever
\* the Group of its catalog document, so its report has categories = [Other]
\* and its is_gp, is_specialist, is_emergency and keyword_refine checks are
\* PASS; this holds for the candidates about to be verified and for every
\* report the run keeps or returns.
C29_RulesHaveNoGroup ==
    /\ \A i \in 1..Len(proposal) :
          proposal[i].code # "" =>
              /\ BareRule(RuleOf(proposal[i]))
              /\ OtherReport(verifyOneTri(facts, RuleOf(proposal[i])).report)
    /\ \A i \in 1..Len(accepted) : OtherReport(accepted[i].verify)
    /\ \A i \in 1..Len(fbItems) : OtherReport(fbItems[i].verify)
    /\ \A i \in 1..Len(result.items) : OtherReport(result.items[i].verify)

C29_Witness ==
    /\ pc = "returned" /\ includeVerify /\ result.kind = "graph"
    /\ Len(result.items) > 0
    /\ Samples[result.items[1].d].meta.group = <<"T", "8">>
    /\ facts.is_gp = "null" /\ facts.keywords = {}
    /\ result.items[1].verify.categories = {"Other"}
    /\ \E i \in 1..Len(result.items[1].verify.checks) :
          /\ result.items[1].verify.checks[i].name = "keyword_refine"
          /\ result.items[1].verify.checks[i].details = ""


(***************************************************************************)
(* Termination of a Deep-mode run (SpecFair).                              *)
(***************************************************************************)
Finished == pc \in {"returned", "raised"}

\* C30: every Deep-mode run eventually returns: it reaches END, or the
\* return of the fallback, or raises from the fallback, provided every
\* external call eventually returns or throws; no node and no retry loop
\* repeats indefinitely.
C30_DeepRunReturns == (pc = "start" /\ includeVerify) ~> Finished

\* the longest run of the graph: three retriever calls in propose and in each
\* of the two refine_propose rounds
C30_Witness ==
    /\ Finished /\ includeVerify /\ result.kind = "graph"
    /\ iterations = MaxIterations /\ nVerify = MaxIterations + 1
    /\ nCalls = MaxTries * (MaxIterations + 1)

====
